---- MODULE Spec2Model ----
(***************************************************************************)
(* Trace-collection-and-evaluation pipeline of the Green agent:            *)
(*   - Executor.execute_task  (green/executor.py): fixed-rounds and        *)
(*     adaptive trace collection with cleanup,                             *)
(*   - TraceStore             (green/trace_store.py): lock-protected store,*)
(*   - Executor.evaluate_all  (green/executor.py): tiered evaluation,      *)
(*   - llm_evaluate / rule_based_evaluate (green/evals/llm_judge.py): the  *)
(*     semantic judge and its rule-based fallback,                         *)
(*   - GraphEvaluator         (green/evals/graph.py): graph construction   *)
(*     and the metric plugin registry,                                     *)
(*   - Messenger              (common/messenger.py): per-URL client cache, *)
(*   - PeerDiscovery          (common/peer_discovery.py): cached peer list.*)
(* Time is counted in integer ticks of the monotonic clock; it advances    *)
(* only while the collector is suspended in an await.                      *)
(***************************************************************************)
EXTENDS Integers, Sequences, FiniteSets, TLC

\* ------------------------------------------------------------------ bounds
\* Largest max_timeout_seconds (in ticks) a configuration is drawn with.
MaxTimeout == 3
\* Largest idle_threshold_seconds (in ticks) a configuration is drawn with.
MaxIdle == 2
\* Largest time (in ticks) the peer takes to answer or to fail.
MaxLatency == 3
\* Largest coordination_rounds of a fixed-rounds configuration.
MaxRounds == 3
\* Cap on the steps one adaptive collection records (the peer may answer in
\* zero ticks, so the loop itself is not bounded by the clock).
MaxSteps == 3
\* Largest batch handed to TraceStore.add_traces.
MaxBatch == 2
\* Number of TraceStore calls made in one behaviour.
MaxCalls == 3
\* Longest step list handed to llm_evaluate / rule_based_evaluate.
MaxJudgeSteps == 2
\* Longest step list handed to GraphEvaluator.evaluate.
MaxGraphSteps == 3
\* Number of register_plugin calls a caller makes on one GraphEvaluator.
MaxCustomPlugins == 1
\* Number of Messenger.send_message calls made in one behaviour.
MaxSends == 3
\* Number of Messenger.close calls made in one behaviour.
MaxCloses == 2
\* Largest cache_ttl (in ticks of time.time()) a PeerDiscovery is built with.
MaxTtl == 2
\* Last tick of time.time() in one behaviour.
MaxClock == 3
\* Number of get_peers calls made in one behaviour.
MaxGets == 3

\* ------------------------------------------------------------ collector
VARIABLES
    cfg,               \* Executor fields: the configuration it was built with
    pc,                \* position of the execute_task coroutine
    now,               \* time.monotonic(), in ticks
    deadline,          \* _adaptive_execute: deadline
    round_num,         \* round_num of either loop
    traces,            \* traces: list[InteractionStep]
    trace_id,          \* trace_id of the run
    previous_step_id,  \* previous_step_id
    uuids,             \* number of uuid4() values drawn so far
    inflight,          \* the send_message being awaited, or NoSend
    log,               \* calls made on the messenger, in order
    pending,           \* what the try block is leaving with (return / raise)
    outcome,           \* what execute_task handed to its caller
    stop_reason,       \* which exit the loop took
    completed,         \* sends that returned a response to the loop
    responses,         \* the response behind each recorded step
    await_end,         \* time at which the last awaited send was left
    send_raised,       \* the error send_message itself raised, if it did
    timed_out,         \* a per-round timeout expired
    before_send        \* traces as they were when the last send started

collectorVars == << cfg, pc, now, deadline, round_num, traces, trace_id,
                    previous_step_id, uuids, inflight, log, pending, outcome,
                    stop_reason, completed, responses, await_end,
                    send_raised, timed_out, before_send >>

\* ------------------------------------------------------------ TraceStore
VARIABLES
    store_traces,       \* self._traces
    registered_agents,  \* self._registered_agents
    lock,               \* self._lock: the thread holding it, or None
    tpc,                \* per thread: where it is in its call
    call,               \* per thread: the call it is making
    progress,           \* per thread: elements of its batch appended so far
    ret,                \* per thread: what its last call returned
    calls,              \* calls made so far
    batches,            \* every batch handed to add_traces, in call order
    registered,         \* every URL handed to register_agent
    removed             \* a clear_traces or unregister_agent call was made

storeVars == << store_traces, registered_agents, lock, tpc, call, progress,
                ret, calls, batches, registered, removed >>

\* ------------------------------------------------------------ evaluate_all
VARIABLES
    evaluators,         \* the three evaluators evaluate_all is called with
    ev_pc,              \* position of the evaluate_all coroutine
    tier1_graph_result, \* what _evaluate_graph returned
    tier1_graph,        \* tier1_graph
    tier2_llm,          \* tier2_llm
    tier2_latency,      \* tier2_latency
    ev_calls,           \* evaluate() calls made on the evaluators, in order
    report              \* what evaluate_all handed to its caller

evalVars == << evaluators, ev_pc, tier1_graph_result, tier1_graph, tier2_llm,
               tier2_latency, ev_calls, report >>

\* ------------------------------------------------------------ llm_evaluate
VARIABLES
    j_steps,            \* steps: the step list llm_evaluate is called with
    j_judge,            \* how the external judge behaves on this call
    j_pc,               \* position of the llm_evaluate coroutine
    j_api_calls,        \* chat.completions.create calls made
    j_handler,          \* the except clause that ran, or None
    j_outcome           \* what llm_evaluate handed to its caller

judgeVars == << j_steps, j_judge, j_pc, j_api_calls, j_handler, j_outcome >>

\* ------------------------------------------------------------ GraphEvaluator
VARIABLES
    g_traces,           \* traces: the step list evaluate is called with
    g_plugins,          \* self._plugins, in insertion order
    g_registered,       \* register_plugin calls made by the caller, in order
    g_pc,               \* position of the evaluate coroutine
    g_graph,            \* graph: the DiGraph built from the traces
    g_results,          \* plugin_results, in insertion order
    g_executed,         \* names of the plugins whose compute() was called
    g_outcome           \* what evaluate handed to its caller

graphVars == << g_traces, g_plugins, g_registered, g_pc, g_graph, g_results,
                g_executed, g_outcome >>

\* ------------------------------------------------------------ Messenger
VARIABLES
    m_tasks,            \* the tasks calling the messenger
    m_clients,          \* self._clients, in insertion order
    m_call,             \* per task: the call it is in and where
    m_sends,            \* send_message calls made so far
    m_connected,        \* connections opened since the last close, in order
    m_open,             \* connections opened and not yet closed
    m_used,             \* per send since the last close: its URL and client
    m_closes,           \* close calls made so far
    m_closed,           \* clients whose close() was called, in call order
    m_result            \* per task: how its last call ended

messengerVars == << m_tasks, m_clients, m_call, m_sends, m_connected, m_open,
                    m_used, m_closes, m_closed, m_result >>

\* -------------------------------------------------------- PeerDiscovery
VARIABLES
    d_static,           \* self._static_peers
    d_green_url,        \* self._green_url
    d_cache_ttl,        \* self._cache_ttl
    d_cached_peers,     \* self._cached_peers: << >> is None, << l >> a list
    d_cache_timestamp,  \* self._cache_timestamp: << >> is None
    d_now,              \* time.time()
    d_pc,               \* per caller: "idle", or "fetching" while its GET /peers is in flight
    d_gets,             \* get_peers calls made so far
    d_requests,         \* GET /peers requests sent so far
    d_invalidated,      \* invalidate_cache() was called since the last fill
    d_degraded,         \* the cache was filled after a failed request
    d_met,              \* per caller: what its call in flight met when it started
    d_result            \* how the get_peers call that ended last went

discoveryVars == << d_static, d_green_url, d_cache_ttl, d_cached_peers,
                    d_cache_timestamp, d_now, d_pc, d_gets, d_requests,
                    d_invalidated, d_degraded, d_met, d_result >>

vars == << collectorVars, storeVars, evalVars, judgeVars, graphVars,
           messengerVars, discoveryVars >>


None == "None"
NoSend == [ active |-> FALSE, bounded |-> FALSE, start |-> 0, timeout |-> 0 ]
Nothing == [ kind |-> None, value |-> << >>, error |-> None ]

Min(a, b) == IF a <= b THEN a ELSE b

\* --- configurations -------------------------------------------------------
\* TraceCollectionConfig: three fields, no validation of their ranges.
TraceCollectionConfig ==
    [ max_timeout_seconds    : 0 .. MaxTimeout,
      idle_threshold_seconds : 0 .. MaxIdle,
      use_completion_signals : BOOLEAN ]

\* Executor.__init__: coordination_rounds, round_delay_seconds, trace_collection.
ExecutorConfigs ==
    [ coordination_rounds : 0 .. MaxRounds,
      round_delay_seconds : {1},
      trace_collection    : { << >> } ]
    \cup
    [ coordination_rounds : {MaxRounds},
      round_delay_seconds : {1},
      trace_collection    : { << c >> : c \in TraceCollectionConfig } ]

\* self._trace_collection, present (an Optional is a sequence of length <= 1).
Config == cfg.trace_collection[1]

\* --- the peer ---------------------------------------------------------------
\* A response payload, by what json.loads makes of it.
Responses ==
    { [json |-> FALSE, dict |-> FALSE, status |-> None],        \* "Response from agent", ""
      [json |-> TRUE,  dict |-> FALSE, status |-> None],        \* "[1]", "\"complete\""
      [json |-> TRUE,  dict |-> TRUE,  status |-> None],        \* "{}"
      [json |-> TRUE,  dict |-> TRUE,  status |-> "completed"], \* {"status": "completed"}
      [json |-> TRUE,  dict |-> TRUE,  status |-> "complete"] } \* {"status": "complete"}

\* Errors send_message can raise: a transport error, or a timeout of its own.
SendErrors == { "A2AClientError", "TimeoutError" }

\* Errors messenger.close() can raise: what a client's close() raised.
CloseErrors == { "RuntimeError" }

\* What the peer does with one send_message: answer after d ticks, fail after
\* d ticks, or never answer.
PeerBehaviours ==
    [ kind : {"respond"}, d : 0 .. MaxLatency, payload : Responses, err : {None} ]
    \cup
    [ kind : {"raise"}, d : 0 .. MaxLatency, payload : {None}, err : SendErrors ]
    \cup
    [ kind : {"never"}, d : {0}, payload : {None}, err : {None} ]

\* A completion test against the literal "completed" instead of "complete".
IsCompleteOtherLiteral(response) ==
    IF ~response.json THEN FALSE
    ELSE response.dict /\ response.status = "completed"
\* _is_complete: json.loads, then isinstance(data, dict) and status == "complete";
\* a payload that does not parse is not complete.
_is_complete(response) ==
    IF ~response.json THEN FALSE
    ELSE response.dict /\ response.status = "complete"

\* --- asyncio ----------------------------------------------------------------
\* What the awaiting coroutine gets back from one send.
Returned(beh) ==
    [ kind |-> beh.kind, payload |-> beh.payload, err |-> beh.err,
      elapsed |-> beh.d, expired |-> FALSE ]
Expired(T) ==
    [ kind |-> "raise", payload |-> None, err |-> "TimeoutError",
      elapsed |-> IF T > 0 THEN T ELSE 0, expired |-> TRUE ]

\* asyncio.wait_for(messenger.send_message(...), timeout=T): TimeoutError once T
\* ticks have passed (at once when T <= 0), the send's own result before that;
\* when both fall on the same tick either one wins.
WaitFor(beh, T) ==
    IF T <= 0 \/ beh.kind = "never" THEN { Expired(T) }
    ELSE IF beh.d < T THEN { Returned(beh) }
    ELSE IF beh.d = T THEN { Returned(beh), Expired(T) }
    ELSE { Expired(T) }

\* await messenger.send_message(...) with no timeout: a peer that never answers
\* leaves the coroutine suspended.
Await(beh) ==
    IF beh.kind = "never" THEN {} ELSE { Returned(beh) }

\* --- pieces of Executor -----------------------------------------------------
\* str(uuid.uuid4()): a value not drawn before.
Uuid4(n) == "uuid-" \o ToString(n + 1)

\* The message of a round: the task description in round 0, a follow-up later.
Message(r) == IF r = 0 THEN << "task_description" >>
              ELSE << "Follow-up coordination round", r + 1 >>

\* deadline = time.monotonic() + config.max_timeout_seconds
Deadline(t, config) == t + config.max_timeout_seconds

\* A remaining time that ignores the clock.
RemainingIgnoringClock(dl, t) == 1
\* remaining = deadline - time.monotonic()
Remaining(dl, t) == dl - t

\* if remaining <= 0: break
HardTimeoutExceeded(remaining) == remaining <= 0

\* A per-round timeout that ignores the time remaining to the deadline.
PerMsgTimeoutIdleOnly(config, remaining) == config.idle_threshold_seconds
\* per_msg_timeout = min(float(config.idle_threshold_seconds), remaining)
PerMsgTimeout(config, remaining) == Min(config.idle_threshold_seconds, remaining)

\* A loop that would swallow every error of a send.
CaughtAnyException(err) == TRUE
\* except TimeoutError: the only error the adaptive loop catches.
Caught(err) == err = "TimeoutError"

\* A stop decision that ignores use_completion_signals.
StopOnSignalIgnoringFlag(config, response) == _is_complete(response)
\* if config.use_completion_signals and _is_complete(response): break
StopOnSignal(config, response) ==
    config.use_completion_signals /\ _is_complete(response)

\* A step that never names its predecessor.
NewStepNoParent(sid, tid, start, end, parent) ==
    [ step_id |-> sid, trace_id |-> tid, call_type |-> "AGENT",
      start_time |-> start, end_time |-> end, latency |-> end - start,
      parent_step_id |-> None ]
\* InteractionStep(step_id=..., trace_id=..., call_type=AGENT, start_time=...,
\*                 end_time=..., latency=..., parent_step_id=previous_step_id)
NewStep(sid, tid, start, end, parent) ==
    [ step_id |-> sid, trace_id |-> tid, call_type |-> "AGENT",
      start_time |-> start, end_time |-> end, latency |-> end - start,
      parent_step_id |-> parent ]

\* A cleanup that runs on return but not on raise (no finally).
LeaveTryCloseOnReturnOnly(kind) == IF kind = "return" THEN "finally" ELSE "exit"
\* try: ... finally: await messenger.close()  -- where control goes when the
\* try block is left by a return or by a raise.
LeaveTry(kind) == "finally"

SendEvent(r) == [ ev |-> "send_message", message |-> Message(r) ]
CloseEvent == [ ev |-> "close", message |-> << >> ]

\* --- Init -------------------------------------------------------------------
InitCollector ==
    /\ cfg \in ExecutorConfigs
    /\ pc = "idle"
    /\ now = 0
    /\ deadline = 0
    /\ round_num = 0
    /\ traces = << >>
    /\ trace_id = None
    /\ previous_step_id = None
    /\ uuids = 0
    /\ inflight = NoSend
    /\ log = << >>
    /\ pending = Nothing
    /\ outcome = Nothing
    /\ stop_reason = None
    /\ completed = 0
    /\ responses = << >>
    /\ await_end = 0
    /\ send_raised = None
    /\ timed_out = FALSE
    /\ before_send = << >>

\* --- execute_task -----------------------------------------------------------
\* execute_task entered with a trace_collection: _adaptive_execute up to its loop.
AdaptiveStart ==
    /\ pc = "idle"
    /\ cfg.trace_collection # << >>
    /\ traces' = << >>
    /\ trace_id' = Uuid4(uuids)
    /\ uuids' = uuids + 1
    /\ previous_step_id' = None
    /\ deadline' = Deadline(now, Config)
    /\ round_num' = 0
    /\ pc' = "adaptive_loop"
    /\ UNCHANGED << cfg, now, inflight, log, pending, outcome, stop_reason,
                    completed, responses, await_end,
                    send_raised, timed_out, before_send >>
    /\ UNCHANGED << storeVars, evalVars, judgeVars, graphVars, messengerVars, discoveryVars >>

\* Loop head, remaining <= 0: break, return traces.
AdaptiveHardTimeout ==
    /\ pc = "adaptive_loop"
    /\ HardTimeoutExceeded(Remaining(deadline, now))
    /\ pending' = [ kind |-> "return", value |-> traces, error |-> None ]
    /\ stop_reason' = "hard_timeout"
    /\ pc' = LeaveTry("return")
    /\ UNCHANGED << cfg, now, deadline, round_num, traces, trace_id,
                    previous_step_id, uuids, inflight, log, outcome, completed,
                    responses, await_end,
                    send_raised, timed_out, before_send >>
    /\ UNCHANGED << storeVars, evalVars, judgeVars, graphVars, messengerVars, discoveryVars >>

\* Loop head, time left: start the round's send under its per-round timeout.
AdaptiveSend ==
    /\ pc = "adaptive_loop"
    /\ before_send' = traces
    /\ ~HardTimeoutExceeded(Remaining(deadline, now))
    /\ Len(traces) < MaxSteps
    /\ inflight' = [ active |-> TRUE, start |-> now, bounded |-> TRUE,
                     timeout |-> PerMsgTimeout(Config,
                                               Remaining(deadline, now)) ]
    /\ log' = Append(log, SendEvent(round_num))
    /\ pc' = "adaptive_await"
    /\ UNCHANGED << cfg, now, deadline, round_num, traces, trace_id,
                    previous_step_id, uuids, pending, outcome, stop_reason,
                    completed, responses, await_end,
                    send_raised, timed_out >>
    /\ UNCHANGED << storeVars, evalVars, judgeVars, graphVars, messengerVars, discoveryVars >>

\* The send returned a response in time: record the step, then stop on a
\* completion signal or go to the next round.
AdaptiveResponse ==
    /\ pc = "adaptive_await"
    /\ \E beh \in PeerBehaviours : \E res \in WaitFor(beh, inflight.timeout) :
        /\ res.kind = "respond"
        /\ now' = now + res.elapsed
        /\ await_end' = now + res.elapsed
        /\ uuids' = uuids + 1
        /\ traces' = Append(traces, NewStep(Uuid4(uuids), trace_id, inflight.start,
                                            now + res.elapsed, previous_step_id))
        /\ previous_step_id' = Uuid4(uuids)
        /\ completed' = completed + 1
        /\ responses' = Append(responses, res.payload)
        /\ inflight' = [ inflight EXCEPT !.active = FALSE ]
        /\ IF StopOnSignal(Config, res.payload)
           THEN /\ pending' = [ kind |-> "return", value |-> traces', error |-> None ]
                /\ stop_reason' = "complete"
                /\ pc' = LeaveTry("return")
                /\ UNCHANGED round_num
           ELSE /\ round_num' = round_num + 1
                /\ pc' = "adaptive_loop"
                /\ UNCHANGED << pending, stop_reason >>
    /\ UNCHANGED << cfg, deadline, trace_id, log, outcome,
                    send_raised, timed_out, before_send >>
    /\ UNCHANGED << storeVars, evalVars, judgeVars, graphVars, messengerVars, discoveryVars >>

\* A timeout after which the loop goes on to the next round instead of breaking.
AdaptiveTimeoutContinues ==
    /\ pc = "adaptive_await"
    /\ \E beh \in PeerBehaviours : \E res \in WaitFor(beh, inflight.timeout) :
        /\ res.kind = "raise"
        /\ Caught(res.err)
        /\ now' = now + res.elapsed
        /\ await_end' = now + res.elapsed
        /\ timed_out' = res.expired
        /\ send_raised' = IF res.expired THEN None ELSE res.err
    /\ inflight' = [ inflight EXCEPT !.active = FALSE ]
    /\ round_num' = round_num + 1
    /\ pc' = "adaptive_loop"
    /\ UNCHANGED << cfg, deadline, traces, trace_id, previous_step_id, uuids,
                    log, outcome, completed, responses, pending, stop_reason,
                    before_send >>
    /\ UNCHANGED << storeVars, evalVars, judgeVars, graphVars, messengerVars, discoveryVars >>
\* The await raised TimeoutError (the per-round timeout expired, or the send
\* raised one itself): break without recording, return traces.
AdaptiveTimeout ==
    /\ pc = "adaptive_await"
    /\ \E beh \in PeerBehaviours : \E res \in WaitFor(beh, inflight.timeout) :
        /\ res.kind = "raise"
        /\ Caught(res.err)
        /\ now' = now + res.elapsed
        /\ await_end' = now + res.elapsed
        /\ timed_out' = res.expired
        /\ send_raised' = IF res.expired THEN None ELSE res.err
    /\ inflight' = [ inflight EXCEPT !.active = FALSE ]
    /\ pending' = [ kind |-> "return", value |-> traces, error |-> None ]
    /\ stop_reason' = "idle"
    /\ pc' = LeaveTry("return")
    /\ UNCHANGED << cfg, deadline, round_num, traces, trace_id,
                    previous_step_id, uuids, log, outcome, completed,
                    responses,
                    before_send >>
    /\ UNCHANGED << storeVars, evalVars, judgeVars, graphVars, messengerVars, discoveryVars >>

\* The send raised an error the loop does not catch: it leaves the try block.
AdaptiveRaise ==
    /\ pc = "adaptive_await"
    /\ \E beh \in PeerBehaviours : \E res \in WaitFor(beh, inflight.timeout) :
        /\ res.kind = "raise"
        /\ ~Caught(res.err)
        /\ now' = now + res.elapsed
        /\ await_end' = now + res.elapsed
        /\ timed_out' = res.expired
        /\ send_raised' = IF res.expired THEN None ELSE res.err
        /\ pending' = [ kind |-> "raise", value |-> << >>, error |-> res.err ]
    /\ inflight' = [ inflight EXCEPT !.active = FALSE ]
    /\ stop_reason' = "error"
    /\ pc' = LeaveTry("raise")
    /\ UNCHANGED << cfg, deadline, round_num, traces, trace_id,
                    previous_step_id, uuids, log, outcome, completed,
                    responses,
                    before_send >>
    /\ UNCHANGED << storeVars, evalVars, judgeVars, graphVars, messengerVars, discoveryVars >>

\* execute_task entered with no trace_collection: _fixed_execute up to its loop.
FixedStart ==
    /\ pc = "idle"
    /\ cfg.trace_collection = << >>
    /\ traces' = << >>
    /\ trace_id' = Uuid4(uuids)
    /\ uuids' = uuids + 1
    /\ previous_step_id' = None
    /\ round_num' = 0
    /\ pc' = "fixed_loop"
    /\ UNCHANGED << cfg, now, deadline, inflight, log, pending, outcome,
                    stop_reason, completed, responses, await_end,
                    send_raised, timed_out, before_send >>
    /\ UNCHANGED << storeVars, evalVars, judgeVars, graphVars, messengerVars, discoveryVars >>

\* for round_num in range(coordination_rounds): exhausted, return traces.
FixedReturn ==
    /\ pc = "fixed_loop"
    /\ round_num >= cfg.coordination_rounds
    /\ pending' = [ kind |-> "return", value |-> traces, error |-> None ]
    /\ stop_reason' = "rounds"
    /\ pc' = LeaveTry("return")
    /\ UNCHANGED << cfg, now, deadline, round_num, traces, trace_id,
                    previous_step_id, uuids, inflight, log, outcome, completed,
                    responses, await_end,
                    send_raised, timed_out, before_send >>
    /\ UNCHANGED << storeVars, evalVars, judgeVars, graphVars, messengerVars, discoveryVars >>

\* The next round of the for loop: send, with no timeout.
FixedSend ==
    /\ pc = "fixed_loop"
    /\ before_send' = traces
    /\ round_num < cfg.coordination_rounds
    /\ inflight' = [ active |-> TRUE, bounded |-> FALSE, start |-> now,
                     timeout |-> 0 ]
    /\ log' = Append(log, SendEvent(round_num))
    /\ pc' = "fixed_await"
    /\ UNCHANGED << cfg, now, deadline, round_num, traces, trace_id,
                    previous_step_id, uuids, pending, outcome, stop_reason,
                    completed, responses, await_end,
                    send_raised, timed_out >>
    /\ UNCHANGED << storeVars, evalVars, judgeVars, graphVars, messengerVars, discoveryVars >>

\* The send returned: the step is recorded; unless this was the last round
\* the coroutine suspends in asyncio.sleep(round_delay_seconds).
FixedResponse ==
    /\ pc = "fixed_await"
    /\ \E beh \in PeerBehaviours : \E res \in Await(beh) :
        /\ res.kind = "respond"
        /\ now' = now + res.elapsed
        /\ await_end' = now + res.elapsed
        /\ traces' = Append(traces, NewStep(Uuid4(uuids), trace_id, inflight.start,
                                            now + res.elapsed, previous_step_id))
        /\ responses' = Append(responses, res.payload)
    /\ uuids' = uuids + 1
    /\ previous_step_id' = Uuid4(uuids)
    /\ completed' = completed + 1
    /\ inflight' = [ inflight EXCEPT !.active = FALSE ]
    /\ IF round_num < cfg.coordination_rounds - 1
       THEN /\ pc' = "fixed_sleep"
            /\ UNCHANGED round_num
       ELSE /\ pc' = "fixed_loop"
            /\ round_num' = round_num + 1
    /\ UNCHANGED << cfg, deadline, trace_id, log, pending, outcome, stop_reason,
                    send_raised, timed_out, before_send >>
    /\ UNCHANGED << storeVars, evalVars, judgeVars, graphVars, messengerVars, discoveryVars >>

\* asyncio.sleep(round_delay_seconds) is over: the for loop takes the next
\* round.
FixedSleepEnds ==
    /\ pc = "fixed_sleep"
    /\ now' = now + cfg.round_delay_seconds
    /\ round_num' = round_num + 1
    /\ pc' = "fixed_loop"
    /\ UNCHANGED << cfg, deadline, traces, trace_id, previous_step_id, uuids,
                    inflight, log, pending, outcome, stop_reason, completed,
                    responses, await_end, send_raised, timed_out, before_send >>
    /\ UNCHANGED << storeVars, evalVars, judgeVars, graphVars, messengerVars, discoveryVars >>

\* The send raised: nothing in _fixed_execute catches it.
FixedRaise ==
    /\ pc = "fixed_await"
    /\ \E beh \in PeerBehaviours : \E res \in Await(beh) :
        /\ res.kind = "raise"
        /\ now' = now + res.elapsed
        /\ await_end' = now + res.elapsed
        /\ timed_out' = res.expired
        /\ send_raised' = IF res.expired THEN None ELSE res.err
        /\ pending' = [ kind |-> "raise", value |-> << >>, error |-> res.err ]
    /\ inflight' = [ inflight EXCEPT !.active = FALSE ]
    /\ stop_reason' = "error"
    /\ pc' = LeaveTry("raise")
    /\ UNCHANGED << cfg, deadline, round_num, traces, trace_id,
                    previous_step_id, uuids, log, outcome, completed,
                    responses,
                    before_send >>
    /\ UNCHANGED << storeVars, evalVars, judgeVars, graphVars, messengerVars, discoveryVars >>

\* finally: await messenger.close() -- close() is called and the coroutine
\* suspends in it.
Finally ==
    /\ pc = "finally"
    /\ log' = Append(log, CloseEvent)
    /\ pc' = "closing"
    /\ UNCHANGED << cfg, now, deadline, round_num, traces, trace_id,
                    previous_step_id, uuids, inflight, pending, outcome,
                    stop_reason, completed, responses, await_end,
                    send_raised, timed_out, before_send >>
    /\ UNCHANGED << storeVars, evalVars, judgeVars, graphVars, messengerVars, discoveryVars >>

\* messenger.close() returned: the finally clause ends and what the try
\* block left with (its return value or its exception) goes on.
CloseReturns ==
    /\ pc = "closing"
    /\ pc' = "exit"
    /\ UNCHANGED << cfg, now, deadline, round_num, traces, trace_id,
                    previous_step_id, uuids, inflight, log, pending, outcome,
                    stop_reason, completed, responses, await_end,
                    send_raised, timed_out, before_send >>
    /\ UNCHANGED << storeVars, evalVars, judgeVars, graphVars, messengerVars, discoveryVars >>

\* messenger.close() raised (Messenger.close lets the errors of
\* client.close() through): nothing catches it, and the exception replaces
\* the return value or the exception the try block left with.
CloseRaises ==
    /\ pc = "closing"
    /\ \E err \in CloseErrors :
         pending' = [ kind |-> "raise", value |-> << >>, error |-> err ]
    /\ pc' = "exit"
    /\ UNCHANGED << cfg, now, deadline, round_num, traces, trace_id,
                    previous_step_id, uuids, inflight, log, outcome,
                    stop_reason, completed, responses, await_end,
                    send_raised, timed_out, before_send >>
    /\ UNCHANGED << storeVars, evalVars, judgeVars, graphVars, messengerVars, discoveryVars >>

\* execute_task hands its list, or the error, to the caller.
Exit ==
    /\ pc = "exit"
    /\ outcome' = pending
    /\ pc' = "done"
    /\ UNCHANGED << cfg, now, deadline, round_num, traces, trace_id,
                    previous_step_id, uuids, inflight, log, pending,
                    stop_reason, completed, responses, await_end,
                    send_raised, timed_out, before_send >>
    /\ UNCHANGED << storeVars, evalVars, judgeVars, graphVars, messengerVars, discoveryVars >>

NextCollector ==
    \/ AdaptiveStart
    \/ AdaptiveHardTimeout
    \/ AdaptiveSend
    \/ AdaptiveResponse
    \/ AdaptiveTimeout
    \/ AdaptiveRaise
    \/ FixedStart
    \/ FixedReturn
    \/ FixedSend
    \/ FixedResponse
    \/ FixedSleepEnds
    \/ FixedRaise
    \/ Finally
    \/ CloseReturns
    \/ CloseRaises
    \/ Exit

\* ================================================================ TraceStore

Threads == { "thread-1", "thread-2" }
AgentUrls == { "http://agent1:8000", "http://agent2:8000" }
TraceIds == { "trace-A", "trace-B" }

\* The steps reporters push: two of one trace, one of another.
SampleTraces ==
    << [ step_id |-> "step-1", trace_id |-> "trace-A" ],
       [ step_id |-> "step-2", trace_id |-> "trace-A" ],
       [ step_id |-> "step-3", trace_id |-> "trace-B" ] >>

\* The batches add_traces is called with: slices of the sample list, the empty
\* one included, and the same first step again and again.
Batches ==
    { SubSeq(SampleTraces, i, j) :
        i \in 1 .. Len(SampleTraces), j \in 0 .. Len(SampleTraces) }
    \cup { [ k \in 1 .. n |-> SampleTraces[1] ] : n \in 0 .. MaxBatch }

BoundedBatches == { b \in Batches : Len(b) <= MaxBatch }

NoCall == [ name |-> None, batch |-> 0, trace_id |-> None, url |-> None ]
NoRet == [ list |-> << >>, agents |-> { } ]

\* The calls a thread can make.
StoreCalls ==
    [ name : {"add_traces"}, batch : {0}, trace_id : {None}, url : {None} ]
    \cup [ name : {"get_all_traces", "clear_traces", "get_registered_agents"},
           batch : {0}, trace_id : {None}, url : {None} ]
    \cup [ name : {"get_traces_by_id"}, batch : {0}, trace_id : TraceIds,
           url : {None} ]
    \cup [ name : {"register_agent", "unregister_agent"}, batch : {0},
           trace_id : {None}, url : AgentUrls ]

\* A lock that anybody can take at any time.
LockNotExclusive == TRUE
\* threading.Lock: acquire succeeds only while nobody holds it.
LockFree == lock = None

\* An extend that drops a step the list already holds.
ExtendSkippingKnownSteps(list, e) ==
    IF \E k \in DOMAIN list : list[k].step = e.step THEN list ELSE Append(list, e)
\* One element of self._traces.extend(traces): the element goes to the end.
ExtendOne(list, e) == Append(list, e)

\* The element of batch b at position k, as stored.
Entry(b, k) == [ step |-> batches[b][k], batch |-> b, pos |-> k ]

\* list(self._traces)
Snapshot(list) == list

\* [trace for trace in self._traces if trace.trace_id == trace_id]
FilterById(list, tid) ==
    LET Matches(e) == e.step.trace_id = tid
    IN  SelectSeq(list, Matches)

\* self._registered_agents.add(agent_url)
SetAdd(set, url) == set \cup { url }

\* self._registered_agents.discard(agent_url)
SetDiscard(set, url) == set \ { url }

InitStore ==
    /\ store_traces = << >>
    /\ registered_agents = { }
    /\ lock = None
    /\ tpc = [ t \in Threads |-> "idle" ]
    /\ call = [ t \in Threads |-> NoCall ]
    /\ progress = [ t \in Threads |-> 0 ]
    /\ ret = [ t \in Threads |-> NoRet ]
    /\ calls = 0
    /\ batches = << >>
    /\ registered = { }
    /\ removed = FALSE

\* A thread calls a method of the store and reaches its "with self._lock:".
Call(t) ==
    /\ tpc[t] = "idle"
    /\ calls < MaxCalls
    /\ calls' = calls + 1
    /\ tpc' = [ tpc EXCEPT ![t] = "acquire" ]
    /\ progress' = [ progress EXCEPT ![t] = 0 ]
    /\ \E c \in StoreCalls :
        IF c.name = "add_traces"
        THEN \E b \in BoundedBatches :
                /\ batches' = Append(batches, b)
                /\ call' = [ call EXCEPT ![t] = [ c EXCEPT !.batch = Len(batches) + 1 ] ]
                /\ UNCHANGED << registered, removed >>
        ELSE /\ call' = [ call EXCEPT ![t] = c ]
             /\ registered' = IF c.name = "register_agent"
                              THEN registered \cup { c.url } ELSE registered
             /\ removed' = ( removed \/ c.name \in { "clear_traces", "unregister_agent" } )
             /\ UNCHANGED batches
    /\ UNCHANGED << store_traces, registered_agents, lock, ret >>
    /\ UNCHANGED << collectorVars, evalVars, judgeVars, graphVars, messengerVars, discoveryVars >>

\* with self._lock: entered.
Acquire(t) ==
    /\ tpc[t] = "acquire"
    /\ LockFree
    /\ lock' = t
    /\ tpc' = [ tpc EXCEPT ![t] = "body" ]
    /\ UNCHANGED << store_traces, registered_agents, call, progress, ret, calls,
                    batches, registered, removed >>
    /\ UNCHANGED << collectorVars, evalVars, judgeVars, graphVars, messengerVars, discoveryVars >>

\* add_traces: self._traces.extend(traces), one element at a time.
AddTracesExtend(t) ==
    /\ tpc[t] = "body"
    /\ call[t].name = "add_traces"
    /\ IF progress[t] < Len(batches[call[t].batch])
       THEN /\ store_traces' = ExtendOne(store_traces,
                                         Entry(call[t].batch, progress[t] + 1))
            /\ progress' = [ progress EXCEPT ![t] = progress[t] + 1 ]
            /\ UNCHANGED tpc
       ELSE /\ tpc' = [ tpc EXCEPT ![t] = "release" ]
            /\ UNCHANGED << store_traces, progress >>
    /\ ret' = [ ret EXCEPT ![t] = NoRet ]
    /\ UNCHANGED << registered_agents, lock, call, calls, batches, registered,
                    removed >>
    /\ UNCHANGED << collectorVars, evalVars, judgeVars, graphVars, messengerVars, discoveryVars >>

\* get_all_traces: return list(self._traces)
GetAllTraces(t) ==
    /\ tpc[t] = "body"
    /\ call[t].name = "get_all_traces"
    /\ ret' = [ ret EXCEPT ![t] = [ list |-> Snapshot(store_traces), agents |-> { } ] ]
    /\ tpc' = [ tpc EXCEPT ![t] = "release" ]
    /\ UNCHANGED << store_traces, registered_agents, lock, call, progress, calls,
                    batches, registered, removed >>
    /\ UNCHANGED << collectorVars, evalVars, judgeVars, graphVars, messengerVars, discoveryVars >>

\* get_traces_by_id: return the stored steps of one trace_id
GetTracesById(t) ==
    /\ tpc[t] = "body"
    /\ call[t].name = "get_traces_by_id"
    /\ ret' = [ ret EXCEPT ![t] = [ list |-> FilterById(store_traces, call[t].trace_id),
                                    agents |-> { } ] ]
    /\ tpc' = [ tpc EXCEPT ![t] = "release" ]
    /\ UNCHANGED << store_traces, registered_agents, lock, call, progress, calls,
                    batches, registered, removed >>
    /\ UNCHANGED << collectorVars, evalVars, judgeVars, graphVars, messengerVars, discoveryVars >>

\* clear_traces: self._traces.clear()
ClearTraces(t) ==
    /\ tpc[t] = "body"
    /\ call[t].name = "clear_traces"
    /\ store_traces' = << >>
    /\ ret' = [ ret EXCEPT ![t] = NoRet ]
    /\ tpc' = [ tpc EXCEPT ![t] = "release" ]
    /\ UNCHANGED << registered_agents, lock, call, progress, calls, batches,
                    registered, removed >>
    /\ UNCHANGED << collectorVars, evalVars, judgeVars, graphVars, messengerVars, discoveryVars >>

\* register_agent: self._registered_agents.add(agent_url)
RegisterAgent(t) ==
    /\ tpc[t] = "body"
    /\ call[t].name = "register_agent"
    /\ registered_agents' = SetAdd(registered_agents, call[t].url)
    /\ ret' = [ ret EXCEPT ![t] = NoRet ]
    /\ tpc' = [ tpc EXCEPT ![t] = "release" ]
    /\ UNCHANGED << store_traces, lock, call, progress, calls, batches,
                    registered, removed >>
    /\ UNCHANGED << collectorVars, evalVars, judgeVars, graphVars, messengerVars, discoveryVars >>

\* unregister_agent: self._registered_agents.discard(agent_url)
UnregisterAgent(t) ==
    /\ tpc[t] = "body"
    /\ call[t].name = "unregister_agent"
    /\ registered_agents' = SetDiscard(registered_agents, call[t].url)
    /\ ret' = [ ret EXCEPT ![t] = NoRet ]
    /\ tpc' = [ tpc EXCEPT ![t] = "release" ]
    /\ UNCHANGED << store_traces, lock, call, progress, calls, batches,
                    registered, removed >>
    /\ UNCHANGED << collectorVars, evalVars, judgeVars, graphVars, messengerVars, discoveryVars >>

\* get_registered_agents: return list(self._registered_agents)
GetRegisteredAgents(t) ==
    /\ tpc[t] = "body"
    /\ call[t].name = "get_registered_agents"
    /\ ret' = [ ret EXCEPT ![t] = [ list |-> << >>, agents |-> registered_agents ] ]
    /\ tpc' = [ tpc EXCEPT ![t] = "release" ]
    /\ UNCHANGED << store_traces, registered_agents, lock, call, progress, calls,
                    batches, registered, removed >>
    /\ UNCHANGED << collectorVars, evalVars, judgeVars, graphVars, messengerVars, discoveryVars >>

\* The with block is left: the lock is released and the call returns.
Release(t) ==
    /\ tpc[t] = "release"
    /\ lock' = IF lock = t THEN None ELSE lock
    /\ tpc' = [ tpc EXCEPT ![t] = "idle" ]
    /\ UNCHANGED << store_traces, registered_agents, call, progress, ret, calls,
                    batches, registered, removed >>
    /\ UNCHANGED << collectorVars, evalVars, judgeVars, graphVars, messengerVars, discoveryVars >>

NextStore ==
    \E t \in Threads :
        \/ Call(t)
        \/ Acquire(t)
        \/ AddTracesExtend(t)
        \/ GetAllTraces(t)
        \/ GetTracesById(t)
        \/ ClearTraces(t)
        \/ RegisterAgent(t)
        \/ UnregisterAgent(t)
        \/ GetRegisteredAgents(t)
        \/ Release(t)

\* ============================================================== evaluate_all
\* Python values the pipeline passes around: a pydantic model, a dict, None.
PyNone == [ type |-> "NoneType", fields |-> None, error |-> None ]
PyModel(name) == [ type |-> "model", fields |-> name, error |-> None ]
PyDict(name) == [ type |-> "dict", fields |-> name, error |-> None ]

\* {"error": str(e)}
ErrorMarker(message) == [ type |-> "dict", fields |-> "error", error |-> message ]

\* model.model_dump(): the model's fields as a plain dict.
ModelDump(v) == [ v EXCEPT !.type = "dict" ]

ErrorMessages == { "Graph evaluation failed", "LLM evaluation failed",
                   "Latency evaluation failed" }

\* An evaluator argument: None, or an object whose evaluate() returns a value
\* or raises an Exception.
Evaluator(results) ==
    [ absent : {TRUE}, raises : {FALSE}, result : {PyNone}, message : {None} ]
    \cup [ absent : {FALSE}, raises : {FALSE}, result : results, message : {None} ]
    \cup [ absent : {FALSE}, raises : {TRUE}, result : {PyNone},
           message : ErrorMessages ]

\* GraphEvaluator.evaluate returns a GraphMetrics model; test doubles return dicts.
GraphEvaluators == Evaluator({ PyModel("GraphMetrics"), PyDict("GraphMetrics") })
\* The judge and latency wrappers return model_dump() dicts.
LlmJudges == Evaluator({ PyDict("LLMJudgment") })
LatencyEvaluators == Evaluator({ PyDict("LatencyMetrics") })

NoArg == [ passed |-> FALSE, value |-> PyNone ]
GraphResultsArg(v) == [ passed |-> TRUE, value |-> v ]

\* One guarded evaluator call: what the helper returns, whether it called
\* evaluate(), and whether an exception left the helper.
Skipped == [ value |-> PyNone, called |-> FALSE, raised |-> FALSE, error |-> None ]
Guarded(evaluator) ==
    IF evaluator.absent THEN Skipped
    ELSE IF evaluator.raises
         THEN [ value |-> ErrorMarker(evaluator.message), called |-> TRUE,
                raised |-> FALSE, error |-> None ]
         ELSE [ value |-> evaluator.result, called |-> TRUE, raised |-> FALSE,
                error |-> None ]
Unguarded(evaluator) ==
    IF evaluator.absent THEN Skipped
    ELSE IF evaluator.raises
         THEN [ value |-> PyNone, called |-> TRUE, raised |-> TRUE,
                error |-> evaluator.message ]
         ELSE [ value |-> evaluator.result, called |-> TRUE, raised |-> FALSE,
                error |-> None ]

\* A graph helper that answers None when evaluate() raises.
EvaluateGraphNoneOnError(graph_evaluator) ==
    IF graph_evaluator.absent \/ ~graph_evaluator.raises
    THEN Guarded(graph_evaluator)
    ELSE [ Guarded(graph_evaluator) EXCEPT !.value = PyNone ]
\* _evaluate_graph: None without evaluator, else evaluate(traces) under
\* try / except Exception.
_evaluate_graph(graph_evaluator) == Guarded(graph_evaluator)

\* A judge helper that gives up when the graph tier had failed.
EvaluateLlmSkippingOnGraphError(llm_judge, graph_results) ==
    IF graph_results.error # None THEN Skipped ELSE Guarded(llm_judge)
\* _evaluate_llm: None without judge, else evaluate(traces, graph_results=...)
\* under try / except Exception.
_evaluate_llm(llm_judge, graph_results) == Guarded(llm_judge)

\* A latency helper without the try / except around evaluate.
EvaluateLatencyUnguarded(latency_evaluator) == Unguarded(latency_evaluator)
\* _evaluate_latency_tier2: None without evaluator, else evaluate(traces) under
\* try / except Exception.
_evaluate_latency_tier2(latency_evaluator) == Guarded(latency_evaluator)

\* A conversion that hands the Tier 1 result on as it is.
ConvertTier1AsIs(result) == result
\* tier1_graph: model_dump() of a model, a dict as it is, None otherwise.
ConvertTier1(result) ==
    IF result.type = "model" THEN ModelDump(result)
    ELSE IF result.type = "dict" THEN result
    ELSE PyNone

NoReport == [ kind |-> None, tier1_graph |-> PyNone, tier2_llm |-> PyNone,
              tier2_latency |-> PyNone, keys |-> { }, error |-> None ]

InitEval ==
    /\ evaluators \in [ graph : GraphEvaluators, llm : LlmJudges,
                        latency : LatencyEvaluators ]
    /\ ev_pc = "idle"
    /\ tier1_graph_result = PyNone
    /\ tier1_graph = PyNone
    /\ tier2_llm = PyNone
    /\ tier2_latency = PyNone
    /\ ev_calls = << >>
    /\ report = NoReport

EvalCall(name, arg) == [ evaluator |-> name, graph_results |-> arg ]

\* The evaluate_all coroutine is left by an exception.
EvalRaise(message) ==
    /\ report' = [ NoReport EXCEPT !.kind = "raise", !.error = message ]
    /\ ev_pc' = "done"

\* Tier 1: await self._evaluate_graph(...) up to its suspension.  Without an
\* evaluator the helper returns None at once; with one, evaluate(traces) is
\* called and the coroutine is suspended in it.
EvaluateGraph ==
    /\ ev_pc = "idle"
    /\ LET r == _evaluate_graph(evaluators.graph)
       IN  IF r.called
           THEN /\ ev_calls' = Append(ev_calls, EvalCall("graph_evaluator", NoArg))
                /\ ev_pc' = "graph_await"
                /\ UNCHANGED << tier1_graph_result, tier1_graph >>
           ELSE /\ tier1_graph_result' = r.value
                /\ tier1_graph' = ConvertTier1(r.value)
                /\ ev_pc' = "tier1_done"
                /\ UNCHANGED ev_calls
    /\ UNCHANGED << evaluators, tier2_llm, tier2_latency, report >>
    /\ UNCHANGED << collectorVars, storeVars, judgeVars, graphVars, messengerVars, discoveryVars >>

\* evaluate(traces) of the graph evaluator ended: the helper's result is
\* stored and converted to a dict.
EvaluateGraphEnds ==
    /\ ev_pc = "graph_await"
    /\ LET r == _evaluate_graph(evaluators.graph)
       IN  IF r.raised
           THEN /\ EvalRaise(r.error)
                /\ UNCHANGED << tier1_graph_result, tier1_graph >>
           ELSE /\ tier1_graph_result' = r.value
                /\ tier1_graph' = ConvertTier1(r.value)
                /\ ev_pc' = "tier1_done"
                /\ UNCHANGED report
    /\ UNCHANGED << evaluators, tier2_llm, tier2_latency, ev_calls >>
    /\ UNCHANGED << collectorVars, storeVars, judgeVars, graphVars, messengerVars, discoveryVars >>

\* Tier 2: await self._evaluate_llm(traces, llm_judge, tier1_graph) up to its
\* suspension in llm_judge.evaluate(traces, graph_results=...).
EvaluateLlm ==
    /\ ev_pc = "tier1_done"
    /\ LET r == _evaluate_llm(evaluators.llm, tier1_graph)
       IN  IF r.called
           THEN /\ ev_calls' = Append(ev_calls,
                                      EvalCall("llm_judge",
                                               GraphResultsArg(tier1_graph)))
                /\ ev_pc' = "llm_await"
                /\ UNCHANGED tier2_llm
           ELSE /\ tier2_llm' = r.value
                /\ ev_pc' = "llm_done"
                /\ UNCHANGED ev_calls
    /\ UNCHANGED << evaluators, tier1_graph_result, tier1_graph, tier2_latency,
                    report >>
    /\ UNCHANGED << collectorVars, storeVars, judgeVars, graphVars, messengerVars, discoveryVars >>

\* The judge's evaluate ended: its result, or the error marker, is stored.
EvaluateLlmEnds ==
    /\ ev_pc = "llm_await"
    /\ LET r == _evaluate_llm(evaluators.llm, tier1_graph)
       IN  IF r.raised
           THEN /\ EvalRaise(r.error)
                /\ UNCHANGED tier2_llm
           ELSE /\ tier2_llm' = r.value
                /\ ev_pc' = "llm_done"
                /\ UNCHANGED report
    /\ UNCHANGED << evaluators, tier1_graph_result, tier1_graph, tier2_latency,
                    ev_calls >>
    /\ UNCHANGED << collectorVars, storeVars, judgeVars, graphVars, messengerVars, discoveryVars >>

\* The report evaluate_all returns.
Report(latency_result) ==
    [ kind |-> "return",
      tier1_graph |-> tier1_graph,
      tier2_llm |-> tier2_llm,
      tier2_latency |-> latency_result,
      keys |-> { "tier1_graph", "tier2_llm", "tier2_latency" },
      error |-> None ]

\* Tier 2: await self._evaluate_latency_tier2(...) up to its suspension in
\* latency_evaluator.evaluate(traces); without an evaluator the report is
\* returned at once.
EvaluateLatency ==
    /\ ev_pc = "llm_done"
    /\ LET r == _evaluate_latency_tier2(evaluators.latency)
       IN  IF r.called
           THEN /\ ev_calls' = Append(ev_calls,
                                      EvalCall("latency_evaluator", NoArg))
                /\ ev_pc' = "latency_await"
                /\ UNCHANGED << tier2_latency, report >>
           ELSE /\ tier2_latency' = r.value
                /\ report' = Report(r.value)
                /\ ev_pc' = "done"
                /\ UNCHANGED ev_calls
    /\ UNCHANGED << evaluators, tier1_graph_result, tier1_graph, tier2_llm >>
    /\ UNCHANGED << collectorVars, storeVars, judgeVars, graphVars, messengerVars, discoveryVars >>

\* The latency evaluator's evaluate ended: the report is returned.
EvaluateLatencyEnds ==
    /\ ev_pc = "latency_await"
    /\ LET r == _evaluate_latency_tier2(evaluators.latency)
       IN  IF r.raised
           THEN /\ EvalRaise(r.error)
                /\ UNCHANGED tier2_latency
           ELSE /\ tier2_latency' = r.value
                /\ report' = Report(r.value)
                /\ ev_pc' = "done"
    /\ UNCHANGED << evaluators, tier1_graph_result, tier1_graph, tier2_llm,
                    ev_calls >>
    /\ UNCHANGED << collectorVars, storeVars, judgeVars, graphVars, messengerVars, discoveryVars >>

NextEval ==
    \/ EvaluateGraph
    \/ EvaluateGraphEnds
    \/ EvaluateLlm
    \/ EvaluateLlmEnds
    \/ EvaluateLatency
    \/ EvaluateLatencyEnds

\* ================================================================ llm_judge
\* Scores are counted in tenths (0.8 is 8): every score the rules can produce
\* is a multiple of 0.1, and the float sums fall on the same side of the 0.7
\* and 0.3 thresholds as the exact ones.  Latencies are milliseconds.

\* InteractionStep as the judge reads it: error and latency, both optional.
JudgeLatencies == { 0, 100, 999, 1000, 1001, 2000, 2001 }
JudgeSteps ==
    [ error : { None, "boom" },
      latency : { << >> } \cup { << v >> : v \in JudgeLatencies } ]
JudgeStepLists == UNION { [ 1 .. n -> JudgeSteps ] : n \in 0 .. MaxJudgeSteps }

\* any(step.error is not None for step in steps)
HasErrors(steps) == \E i \in DOMAIN steps : steps[i].error # None

\* step.latency or 0
LatencyOrZero(step) == IF step.latency = << >> THEN 0 ELSE step.latency[1]

\* sum(step.latency or 0 for step in steps)
RECURSIVE SumLatency(_)
SumLatency(steps) ==
    IF steps = << >> THEN 0
    ELSE LatencyOrZero(steps[1]) + SumLatency(Tail(steps))

\* avg_latency = sum(...) / len(steps), kept as the fraction total / n.
AvgLatency(steps) == [ total |-> SumLatency(steps), n |-> Len(steps) ]
AvgAbove(avg, ms) == avg.total > ms * avg.n
AvgBelow(avg, ms) == avg.total < ms * avg.n

\* f"{avg_latency:.0f}": the average rounded half to even.
FormatAvg(avg) ==
    LET q == avg.total \div avg.n
        r == avg.total % avg.n
    IN  IF 2 * r < avg.n THEN q
        ELSE IF 2 * r > avg.n THEN q + 1
        ELSE IF q % 2 = 0 THEN q ELSE q + 1

\* score = max(0.0, min(1.0, score))
ClampScore(score) == IF score < 0 THEN 0 ELSE IF score > 10 THEN 10 ELSE score

\* A latency rule that takes off 0.2 from 1000 ms on.
LatencyPenaltyOneTier(avg) == IF AvgAbove(avg, 1000) THEN 2 ELSE 0
\* if avg_latency > 2000: score -= 0.2 / elif avg_latency > 1000: score -= 0.1
LatencyPenalty(avg) ==
    IF AvgAbove(avg, 2000) THEN 2
    ELSE IF AvgAbove(avg, 1000) THEN 1
    ELSE 0

\* The score of a non-empty list: base 0.8, error and latency penalties, the
\* bonus for more than one step, then the clamp.
RuleScore(steps) ==
    LET base == 8
        afterErrors == IF HasErrors(steps) THEN base - 3 ELSE base
        afterLatency == afterErrors - LatencyPenalty(AvgLatency(steps))
        afterBonus == IF Len(steps) > 1 THEN afterLatency + 1 ELSE afterLatency
    IN  ClampScore(afterBonus)

\* A labelling with medium only above 0.3.
QualityMediumAbove(score) ==
    IF score >= 7 THEN "high"
    ELSE IF score > 3 THEN "medium"
    ELSE "low"
\* high from 0.7, medium from 0.3, low below.
Quality(score) ==
    IF score >= 7 THEN "high"
    ELSE IF score >= 3 THEN "medium"
    ELSE "low"

Strengths(steps) ==
    ( IF ~HasErrors(steps) THEN << "No errors in coordination" >> ELSE << >> )
    \o ( IF AvgBelow(AvgLatency(steps), 1000) THEN << "Low latency" >> ELSE << >> )
    \o ( IF Len(steps) > 1 THEN << "Multiple interaction steps" >> ELSE << >> )

\* Weaknesses that note high latency whenever a latency penalty applies.
WeaknessesFromPenalty(steps) ==
    ( IF HasErrors(steps) THEN << "Errors detected in coordination" >> ELSE << >> )
    \o ( IF LatencyPenalty(AvgLatency(steps)) > 0
         THEN << "High latency" >> ELSE << >> )
\* weaknesses: the else branch of the error test, the elif of the latency test.
Weaknesses(steps) ==
    ( IF HasErrors(steps) THEN << "Errors detected in coordination" >> ELSE << >> )
    \o ( IF ~AvgBelow(AvgLatency(steps), 1000) /\ AvgAbove(AvgLatency(steps), 2000)
         THEN << "High latency" >> ELSE << >> )

\* LLMJudgment(...)
LLMJudgment(score, reasoning, quality, strengths, weaknesses) ==
    [ overall_score |-> score, reasoning |-> reasoning,
      coordination_quality |-> quality, strengths |-> strengths,
      weaknesses |-> weaknesses ]

Reasoning(text, n, avg, errors) ==
    [ text |-> text, num_steps |-> n, avg_latency |-> avg, errors |-> errors ]

\* rule_based_evaluate(steps)
rule_based_evaluate(steps) ==
    IF steps = << >>
    THEN LLMJudgment(0, Reasoning("No interaction steps to evaluate", 0, 0, None),
                     "low", << >>, << "No coordination data available" >>)
    ELSE LLMJudgment(RuleScore(steps),
                     Reasoning("Rule-based evaluation", Len(steps),
                               FormatAvg(AvgLatency(steps)),
                               IF HasErrors(steps) THEN "with errors"
                               ELSE "no errors"),
                     Quality(RuleScore(steps)), Strengths(steps), Weaknesses(steps))

\* --- the external judge ------------------------------------------------------
\* A judgment as the judge may word it; a score of 15 (1.5) fails validation.
JudgePayloads ==
    { LLMJudgment(9, Reasoning("Agents coordinated well", 0, 0, None), "high",
                  << "Clear delegation" >>, << >>),
      LLMJudgment(2, Reasoning("Coordination failed", 0, 0, None), "low",
                  << >>, << "Multiple errors" >>),
      LLMJudgment(15, Reasoning("Out of range", 0, 0, None), "high", << >>, << >>) }

NoPayload == LLMJudgment(0, Reasoning(None, 0, 0, None), None, << >>, << >>)

\* response.choices[0].message.content: the forms a response body takes.
JudgeContents ==
    [ form : {"no_choices", "none", "empty", "not_json", "json_list",
              "json_missing_fields"}, payload : {NoPayload} ]
    \cup [ form : {"json_object"}, payload : JudgePayloads ]

\* Errors get_llm_client() / chat.completions.create() raise.
ClientErrors == { "OpenAIError" }
ApiErrors == { "ConnectionError", "TimeoutError", "APIError", "RateLimitError" }

JudgeBehaviours ==
    [ kind : {"client_raises"}, error : ClientErrors,
      content : { [ form |-> "none", payload |-> NoPayload ] } ]
    \cup [ kind : {"api_raises"}, error : ApiErrors,
           content : { [ form |-> "none", payload |-> NoPayload ] } ]
    \cup [ kind : {"responds"}, error : {None}, content : JudgeContents ]

\* overall_score: float = Field(ge=0.0, le=1.0)
Validates(payload) == payload.overall_score >= 0 /\ payload.overall_score <= 10

Parsed(value) == [ ok |-> TRUE, value |-> value, error |-> None ]
Failed(error) == [ ok |-> FALSE, value |-> NoPayload, error |-> error ]
Falsy == [ ok |-> FALSE, value |-> NoPayload, error |-> None ]

\* content = response.choices[0].message.content; if content:
\* json.loads(content), LLMJudgment(**result_data): the judgment, the error
\* raised on the way, or no error when the content is None or empty.
ParseContent(content) ==
    CASE content.form = "no_choices" -> Failed("IndexError")
      [] content.form \in {"none", "empty"} -> Falsy
      [] content.form = "not_json" -> Failed("JSONDecodeError")
      [] content.form = "json_list" -> Failed("TypeError")
      [] content.form = "json_missing_fields" -> Failed("ValidationError")
      [] content.form = "json_object" ->
            IF Validates(content.payload) THEN Parsed(content.payload)
            ELSE Failed("ValidationError")

\* An llm_evaluate whose last clause is missing: only the named errors are caught.
HandlerNamedOnly(error) ==
    IF error \in {"ConnectionError", "TimeoutError"}
    THEN "except (ConnectionError, TimeoutError)"
    ELSE IF error \in {"JSONDecodeError", "ValidationError"}
    THEN "except (json.JSONDecodeError, ValidationError)"
    ELSE None
\* The except clause of llm_evaluate that catches the error.
Handler(error) ==
    IF error \in {"ConnectionError", "TimeoutError"}
    THEN "except (ConnectionError, TimeoutError)"
    ELSE IF error \in {"JSONDecodeError", "ValidationError"}
    THEN "except (json.JSONDecodeError, ValidationError)"
    ELSE "except Exception"

NoOutcome == [ kind |-> None, value |-> NoPayload, error |-> None ]
JudgeReturn(value) == [ kind |-> "return", value |-> value, error |-> None ]
JudgeRaise(error) == [ kind |-> "raise", value |-> NoPayload, error |-> error ]

\* What llm_evaluate does with an error raised inside its try block.
OnError(error, steps) ==
    IF Handler(error) = None THEN JudgeRaise(error)
    ELSE JudgeReturn(rule_based_evaluate(steps))

InitJudge ==
    /\ j_steps \in JudgeStepLists
    /\ j_judge \in JudgeBehaviours
    /\ j_pc = "idle"
    /\ j_api_calls = 0
    /\ j_handler = None
    /\ j_outcome = NoOutcome

\* get_llm_client() raises before any call is made.
JudgeClientRaises ==
    /\ j_pc = "idle"
    /\ j_judge.kind = "client_raises"
    /\ j_handler' = Handler(j_judge.error)
    /\ j_outcome' = OnError(j_judge.error, j_steps)
    /\ j_pc' = "done"
    /\ UNCHANGED << j_steps, j_judge, j_api_calls >>
    /\ UNCHANGED << collectorVars, storeVars, evalVars, graphVars, messengerVars, discoveryVars >>

\* await client.chat.completions.create(...)
JudgeCall ==
    /\ j_pc = "idle"
    /\ j_judge.kind # "client_raises"
    /\ j_api_calls' = j_api_calls + 1
    /\ j_pc' = "awaiting"
    /\ UNCHANGED << j_steps, j_judge, j_handler, j_outcome >>
    /\ UNCHANGED << collectorVars, storeVars, evalVars, graphVars, messengerVars, discoveryVars >>

\* The call raises.
JudgeApiRaises ==
    /\ j_pc = "awaiting"
    /\ j_judge.kind = "api_raises"
    /\ j_handler' = Handler(j_judge.error)
    /\ j_outcome' = OnError(j_judge.error, j_steps)
    /\ j_pc' = "done"
    /\ UNCHANGED << j_steps, j_judge, j_api_calls >>
    /\ UNCHANGED << collectorVars, storeVars, evalVars, graphVars, messengerVars, discoveryVars >>

\* The call returns a response: parse it, fall back when there is no content
\* or when parsing or validation raises.
JudgeResponds ==
    /\ j_pc = "awaiting"
    /\ j_judge.kind = "responds"
    /\ LET p == ParseContent(j_judge.content)
       IN  IF p.ok
           THEN /\ j_outcome' = JudgeReturn(p.value)
                /\ j_handler' = None
           ELSE IF p.error = None
           THEN /\ j_outcome' = JudgeReturn(rule_based_evaluate(j_steps))
                /\ j_handler' = None
           ELSE /\ j_outcome' = OnError(p.error, j_steps)
                /\ j_handler' = Handler(p.error)
    /\ j_pc' = "done"
    /\ UNCHANGED << j_steps, j_judge, j_api_calls >>
    /\ UNCHANGED << collectorVars, storeVars, evalVars, graphVars, messengerVars, discoveryVars >>

NextJudge ==
    \/ JudgeClientRaises
    \/ JudgeCall
    \/ JudgeApiRaises
    \/ JudgeResponds

\* ================================================================ graph
\* InteractionStep as the graph builder reads it: step_id and parent_step_id.
StepIds == { "a", "b" }
GraphSteps == [ step_id : StepIds, parent_step_id : StepIds \cup { None } ]
GraphStepLists == UNION { [ 1 .. n -> GraphSteps ] : n \in 0 .. MaxGraphSteps }

Range(s) == { s[i] : i \in DOMAIN s }

\* nx.DiGraph(): nodes in insertion order, edges as a set of pairs.
EmptyGraph == [ nodes |-> << >>, edges |-> { } ]

\* An add_node that adds the node once more when it is already there.
AddNodeAgain(graph, n) == [ graph EXCEPT !.nodes = Append(@, n) ]
\* graph.add_node(n): a node already present stays as it is.
AddNode(graph, n) ==
    IF n \in Range(graph.nodes) THEN graph
    ELSE [ graph EXCEPT !.nodes = Append(@, n) ]

\* graph.add_edge(u, v): adds u and v as nodes when missing, then the edge.
AddEdge(graph, u, v) ==
    [ AddNode(AddNode(graph, u), v) EXCEPT !.edges = @ \cup { << u, v >> } ]

\* for step in traces: graph.add_node(step.step_id)
RECURSIVE AddNodes(_, _)
AddNodes(graph, steps) ==
    IF steps = << >> THEN graph
    ELSE AddNodes(AddNode(graph, steps[1].step_id), Tail(steps))

\* for step in traces: if step.parent_step_id is not None: graph.add_edge(...)
RECURSIVE AddEdges(_, _)
AddEdges(graph, steps) ==
    IF steps = << >> THEN graph
    ELSE AddEdges(
            IF steps[1].parent_step_id # None
            THEN AddEdge(graph, steps[1].parent_step_id, steps[1].step_id)
            ELSE graph,
            Tail(steps))

\* GraphEvaluator._build_graph
_build_graph(steps) == AddEdges(AddNodes(EmptyGraph, steps), steps)

\* --- networkx ----------------------------------------------------------------
\* Metric values are fractions num / den; 0.0 is a fraction with num = 0.
Fraction(num, den) == [ num |-> num, den |-> den ]
Zero == Fraction(0, 1)
IsZero(x) == x.num = 0

\* G.degree(n) of a DiGraph: in-degree plus out-degree, a self-loop counting in both.
Degree(graph, n) ==
    Cardinality({ e \in graph.edges : e[1] = n })
    + Cardinality({ e \in graph.edges : e[2] = n })

\* nx.degree_centrality(graph): 1 for every node of a graph of at most one
\* node, else degree / (n - 1).
DegreeCentrality(graph) ==
    [ n \in Range(graph.nodes) |->
        IF Len(graph.nodes) <= 1 THEN Fraction(1, 1)
        ELSE Fraction(Degree(graph, n), Len(graph.nodes) - 1) ]

\* nx.density(graph): 0 without edges or with at most one node, else
\* m / (n * (n - 1)), self-loops counted among the m edges.
Density(graph) ==
    LET n == Len(graph.nodes)
        m == Cardinality(graph.edges)
    IN  IF m = 0 \/ n <= 1 THEN Zero ELSE Fraction(m, n * (n - 1))

\* Nodes reachable from the set seen along edges taken in either direction.
RECURSIVE WeaklyReachable(_, _)
WeaklyReachable(graph, seen) ==
    LET next == seen \cup { e[2] : e \in { x \in graph.edges : x[1] \in seen } }
                     \cup { e[1] : e \in { x \in graph.edges : x[2] \in seen } }
    IN  IF next = seen THEN seen ELSE WeaklyReachable(graph, next)

\* nx.weakly_connected_components(graph)
WeaklyConnectedComponents(graph) ==
    { WeaklyReachable(graph, { n }) : n \in Range(graph.nodes) }

\* nx.is_weakly_connected(graph), for a graph with nodes
IsWeaklyConnected(graph) == Cardinality(WeaklyConnectedComponents(graph)) = 1

\* --- metric values -----------------------------------------------------------
\* A metric value: a per-node map, a scalar, or a value some networkx routine
\* computed whose number is not followed here ("library"); by names the plugin
\* class that produced it.
MapValue(by, f) ==
    [ type |-> "map", by |-> by, map |-> f, scalar |-> Zero ]
ScalarValue(by, x) ==
    [ type |-> "scalar", by |-> by, map |-> << >>, scalar |-> x ]
LibraryMap(by) ==
    [ type |-> "library_map", by |-> by, map |-> << >>, scalar |-> Zero ]
LibraryScalar(by) ==
    [ type |-> "library_scalar", by |-> by, map |-> << >>, scalar |-> Zero ]

\* {str(node): 0.0 for node in graph.nodes()}
ZeroPerNode(by, graph) == MapValue(by, [ n \in Range(graph.nodes) |-> Zero ])

\* --- plugins -----------------------------------------------------------------
BuiltinNames ==
    << "degree_centrality", "betweenness_centrality", "closeness_centrality",
       "eigenvector_centrality", "pagerank", "graph_density",
       "clustering_coefficient", "connected_components" >>

BuiltinClass(name) ==
    CASE name = "degree_centrality" -> "DegreeCentralityPlugin"
      [] name = "betweenness_centrality" -> "BetweennessCentralityPlugin"
      [] name = "closeness_centrality" -> "ClosenessCentralityPlugin"
      [] name = "eigenvector_centrality" -> "EigenvectorCentralityPlugin"
      [] name = "pagerank" -> "PageRankPlugin"
      [] name = "graph_density" -> "GraphDensityPlugin"
      [] name = "clustering_coefficient" -> "ClusteringCoefficientPlugin"
      [] name = "connected_components" -> "ConnectedComponentsPlugin"

\* Plugins a caller writes: one returning 42.0, one returning 0.0 for every
\* node, one whose compute raises.
CustomClasses == { "CustomConst", "CustomZeros", "CustomRaises" }
CustomNames == { "custom_test_metric", "degree_centrality" }

\* Errors the networkx routine behind a plugin can raise (None: it returns).
LibraryErrors(class) ==
    CASE class = "ClosenessCentralityPlugin" -> { None, "NetworkXError" }
      [] class = "EigenvectorCentralityPlugin" ->
            { None, "PowerIterationFailedConvergence", "NetworkXError" }
      [] class = "PageRankPlugin" -> { None, "PowerIterationFailedConvergence" }
      [] class = "CustomRaises" -> { "ValueError" }
      [] OTHER -> { None }

\* The except clauses inside the plugins' compute methods.
PluginCatches(class) ==
    CASE class = "ClosenessCentralityPlugin" -> { "NetworkXError" }
      [] class = "EigenvectorCentralityPlugin" ->
            { "PowerIterationFailedConvergence", "NetworkXError" }
      [] OTHER -> { }

Computed(value) == [ raised |-> FALSE, error |-> None, value |-> value ]
Raised(error) == [ raised |-> TRUE, error |-> error, value |-> LibraryScalar(None) ]

\* plugin.compute(graph), the routine behind it ending with error (or None).
Compute(class, graph, error) ==
    IF error # None
    THEN IF error \in PluginCatches(class)
         THEN Computed(ZeroPerNode(class, graph))
         ELSE Raised(error)
    ELSE CASE class = "DegreeCentralityPlugin" ->
                Computed(MapValue(class, DegreeCentrality(graph)))
           [] class = "GraphDensityPlugin" ->
                Computed(ScalarValue(class, Density(graph)))
           [] class \in { "BetweennessCentralityPlugin", "ClosenessCentralityPlugin",
                          "EigenvectorCentralityPlugin", "PageRankPlugin" } ->
                Computed(LibraryMap(class))
           [] class \in { "ClusteringCoefficientPlugin", "ConnectedComponentsPlugin" } ->
                Computed(LibraryScalar(class))
           [] class = "CustomConst" -> Computed(ScalarValue(class, Fraction(42, 1)))
           [] class = "CustomZeros" -> Computed(ZeroPerNode(class, graph))

\* --- the registry ------------------------------------------------------------
Registration(name, class) == [ name |-> name, class |-> class ]

Names(registry) == { registry[i].name : i \in DOMAIN registry }
IndexOf(registry, name) == CHOOSE i \in DOMAIN registry : registry[i].name = name

\* self._plugins[name] = plugin: a name already present keeps its place and
\* gets the new plugin.
DictSet(registry, name, class) ==
    IF name \in Names(registry)
    THEN [ registry EXCEPT ![IndexOf(registry, name)].class = class ]
    ELSE Append(registry, Registration(name, class))

\* GraphEvaluator.register_plugin
register_plugin(registry, name, class) == DictSet(registry, name, class)

\* GraphEvaluator.__init__: the eight built-in plugins, in order.
BuiltinRegistry ==
    [ i \in DOMAIN BuiltinNames |->
        Registration(BuiltinNames[i], BuiltinClass(BuiltinNames[i])) ]

\* --- evaluate ----------------------------------------------------------------
Result(name, value) == [ name |-> name, value |-> value ]

\* plugin_results.get(name, default)
Get(results, name, default) ==
    IF \E i \in DOMAIN results : results[i].name = name
    THEN results[CHOOSE i \in DOMAIN results : results[i].name = name].value
    ELSE default

\* Largest weakly connected component: max(components, key=len)
LargestComponentSize(graph) ==
    LET sizes == { Cardinality(c) : c \in WeaklyConnectedComponents(graph) }
    IN  CHOOSE s \in sizes : \A t \in sizes : t <= s

ZeroPath == [ average_path_length |-> ScalarValue("_compute_path_metrics", Zero),
              diameter |-> ScalarValue("_compute_path_metrics", Zero) ]
LibraryPath == [ average_path_length |-> LibraryScalar("_compute_path_metrics"),
                 diameter |-> LibraryScalar("_compute_path_metrics") ]

\* The path metrics are decided without calling a networkx routine that can fail.
PathIsTrivial(graph) ==
    \/ Len(graph.nodes) = 0
    \/ ~IsWeaklyConnected(graph) /\ LargestComponentSize(graph) <= 1

\* Errors average_shortest_path_length / diameter can end with.
PathErrors(graph) ==
    IF PathIsTrivial(graph) THEN { None } ELSE { None, "NetworkXError" }

\* GraphEvaluator._compute_path_metrics: (0.0, 0) for an empty graph, for a
\* largest component of at most one node, and when networkx raises
\* NetworkXError.
_compute_path_metrics(graph, error) ==
    IF PathIsTrivial(graph) \/ error = "NetworkXError" THEN ZeroPath
    ELSE LibraryPath

\* [agent for agent, c in betweenness_centrality.items() if c > 0.5]; for a
\* library value the list depends on numbers not followed here.
Bottlenecks(value, graph) ==
    IF value.type = "map"
    THEN LET Above(n) == n \in DOMAIN value.map /\ 2 * value.map[n].num > value.map[n].den
         IN  [ by |-> value.by, known |-> TRUE, list |-> SelectSeq(graph.nodes, Above) ]
    ELSE [ by |-> value.by, known |-> FALSE, list |-> << >> ]

\* [agent for agent, degree in degree_centrality.items() if degree == 0.0]
IsolatedAgents(value, graph) ==
    LET IsIsolated(n) == n \in DOMAIN value.map /\ IsZero(value.map[n])
    IN  SelectSeq(graph.nodes, IsIsolated)

\* A detection that fires from half of the total degree on.
DetectOverCentralizationFromHalf(graph) ==
    LET total_edges == Cardinality(graph.edges)
    IN  IF Len(graph.nodes) = 0 \/ total_edges = 0 THEN FALSE
        ELSE \E n \in Range(graph.nodes) :
                10 * Degree(graph, n) >= 5 * ( 2 * total_edges )
\* GraphEvaluator._detect_over_centralization
_detect_over_centralization(graph) ==
    LET total_edges == Cardinality(graph.edges)
    IN  IF Len(graph.nodes) = 0 \/ total_edges = 0 THEN FALSE
        ELSE \E n \in Range(graph.nodes) :
                10 * Degree(graph, n) > 7 * ( 2 * total_edges )

BuiltinKeys == Range(BuiltinNames)

\* for key, value in plugin_results.items(): if key not in builtin_keys: ...
CustomResults(results) ==
    LET IsCustom(r) == r.name \notin BuiltinKeys
    IN  SelectSeq(results, IsCustom)

GraphMetrics(results, path, bottlenecks, isolated_agents, over_centralized, extra) ==
    [ degree_centrality |-> Get(results, "degree_centrality", MapValue(None, << >>)),
      betweenness_centrality |->
          Get(results, "betweenness_centrality", MapValue(None, << >>)),
      closeness_centrality |->
          Get(results, "closeness_centrality", MapValue(None, << >>)),
      eigenvector_centrality |->
          Get(results, "eigenvector_centrality", MapValue(None, << >>)),
      pagerank |-> Get(results, "pagerank", MapValue(None, << >>)),
      graph_density |-> Get(results, "graph_density", ScalarValue(None, Zero)),
      clustering_coefficient |->
          Get(results, "clustering_coefficient", ScalarValue(None, Zero)),
      connected_components |->
          Get(results, "connected_components", ScalarValue(None, Zero)),
      average_path_length |-> path.average_path_length,
      diameter |-> path.diameter,
      bottlenecks |-> bottlenecks,
      isolated_agents |-> isolated_agents,
      over_centralized |-> over_centralized,
      extra |-> extra ]

\* GraphEvaluator._empty_metrics
_empty_metrics ==
    GraphMetrics(<< >>,
                 [ average_path_length |-> ScalarValue(None, Zero),
                   diameter |-> ScalarValue(None, Zero) ],
                 [ by |-> None, known |-> TRUE, list |-> << >> ],
                 << >>, FALSE, << >>)

NoGraphOutcome == [ kind |-> None, metrics |-> _empty_metrics, error |-> None ]
GraphReturn(metrics) == [ kind |-> "return", metrics |-> metrics, error |-> None ]
GraphRaise(error) == [ kind |-> "raise", metrics |-> _empty_metrics, error |-> error ]

\* The part of evaluate after the plugin loop: findings, the metrics dict, the
\* custom results, GraphMetrics(**metrics_dict).  A degree or betweenness
\* value that is not a dict has no .items().
Assemble(results, graph, path_error) ==
    LET degree == Get(results, "degree_centrality", MapValue(None, << >>))
        betweenness == Get(results, "betweenness_centrality", MapValue(None, << >>))
    IN  IF degree.type = "scalar" \/ betweenness.type = "scalar"
        THEN GraphRaise("AttributeError")
        ELSE GraphReturn(
                GraphMetrics(results, _compute_path_metrics(graph, path_error),
                             Bottlenecks(betweenness, graph),
                             IsolatedAgents(degree, graph),
                             _detect_over_centralization(graph),
                             CustomResults(results)))

InitGraph ==
    /\ g_traces \in GraphStepLists
    /\ g_plugins = BuiltinRegistry
    /\ g_registered = << >>
    /\ g_pc = "idle"
    /\ g_graph = EmptyGraph
    /\ g_results = << >>
    /\ g_executed = << >>
    /\ g_outcome = NoGraphOutcome

\* The caller registers a plugin before evaluating.
GraphRegister ==
    /\ g_pc = "idle"
    /\ Len(g_registered) < MaxCustomPlugins
    /\ \E name \in CustomNames : \E class \in CustomClasses :
        /\ g_plugins' = register_plugin(g_plugins, name, class)
        /\ g_registered' = Append(g_registered, Registration(name, class))
    /\ UNCHANGED << g_traces, g_pc, g_graph, g_results, g_executed, g_outcome >>
    /\ UNCHANGED << collectorVars, storeVars, evalVars, judgeVars, messengerVars, discoveryVars >>

\* evaluate([]): if not traces: return self._empty_metrics()
GraphEvaluateEmpty ==
    /\ g_pc = "idle"
    /\ g_traces = << >>
    /\ g_outcome' = GraphReturn(_empty_metrics)
    /\ g_pc' = "done"
    /\ UNCHANGED << g_traces, g_plugins, g_registered, g_graph, g_results,
                    g_executed >>
    /\ UNCHANGED << collectorVars, storeVars, evalVars, judgeVars, messengerVars, discoveryVars >>

\* evaluate(traces): graph = self._build_graph(traces)
GraphBuild ==
    /\ g_pc = "idle"
    /\ g_traces # << >>
    /\ g_graph' = _build_graph(g_traces)
    /\ g_pc' = "plugins"
    /\ UNCHANGED << g_traces, g_plugins, g_registered, g_results, g_executed,
                    g_outcome >>
    /\ UNCHANGED << collectorVars, storeVars, evalVars, judgeVars, messengerVars, discoveryVars >>

\* One turn of: for name, plugin in self._plugins.items():
\*                  plugin_results[name] = plugin.compute(graph)
GraphCompute ==
    /\ g_pc = "plugins"
    /\ Len(g_executed) < Len(g_plugins)
    /\ LET p == g_plugins[Len(g_executed) + 1]
       IN  \E error \in LibraryErrors(p.class) :
            LET r == Compute(p.class, g_graph, error)
            IN  /\ g_executed' = Append(g_executed, p.name)
                /\ IF r.raised
                   THEN /\ g_outcome' = GraphRaise(r.error)
                        /\ g_pc' = "done"
                        /\ UNCHANGED g_results
                   ELSE /\ g_results' = Append(g_results, Result(p.name, r.value))
                        /\ UNCHANGED << g_outcome, g_pc >>
    /\ UNCHANGED << g_traces, g_plugins, g_registered, g_graph >>
    /\ UNCHANGED << collectorVars, storeVars, evalVars, judgeVars, messengerVars, discoveryVars >>

\* The rest of evaluate once every plugin has been computed.
GraphFinish ==
    /\ g_pc = "plugins"
    /\ Len(g_executed) = Len(g_plugins)
    /\ \E path_error \in PathErrors(g_graph) :
        g_outcome' = Assemble(g_results, g_graph, path_error)
    /\ g_pc' = "done"
    /\ UNCHANGED << g_traces, g_plugins, g_registered, g_graph, g_results,
                    g_executed >>
    /\ UNCHANGED << collectorVars, storeVars, evalVars, judgeVars, messengerVars, discoveryVars >>

NextGraph ==
    \/ GraphRegister
    \/ GraphEvaluateEmpty
    \/ GraphBuild
    \/ GraphCompute
    \/ GraphFinish

\* ============================================================ Messenger
\* common/messenger.py (green/messenger.py is the same class without the
\* httpx timeout configuration).  The messenger keeps one A2A client per URL
\* in self._clients; send_message suspends while ClientFactory.connect runs
\* and while the client's events are read, close suspends at every
\* client.close().

Urls == { "u1", "u2" }

\* The tasks that call one Messenger: task 1 alone, or task 1 and a task
\* running concurrently with it.
Tasks == { 1, 2 }
TaskSets == { { 1 }, Tasks }

\* The client ClientFactory.connect returned to send number n, connected
\* to url.
Client(n, url) == [ id |-> n, url |-> url ]

\* A cache that never finds a URL.
HasClientNever(clients, url) == FALSE
\* url in self._clients
HasClient(clients, url) == \E i \in DOMAIN clients : clients[i].url = url

\* self._clients[url]
ClientOf(clients, url) ==
    clients[CHOOSE i \in DOMAIN clients : clients[i].url = url].client

\* self._clients[url] = client: a key the dict has keeps its position, a
\* new key goes last.
SetClient(clients, url, client) ==
    IF \E i \in DOMAIN clients : clients[i].url = url
    THEN [ i \in DOMAIN clients |->
             IF clients[i].url = url
             THEN [ url |-> url, client |-> client ]
             ELSE clients[i] ]
    ELSE Append(clients, [ url |-> url, client |-> client ])

\* A clear() that leaves the dict as it is.
ClearNothing(clients) == clients
\* self._clients.clear()
Clear(clients) == << >>

\* A task that is in no call of the messenger.
Idle == [ op |-> "idle", n |-> 0, url |-> None, client |-> << >>,
          pos |-> 0, size |-> 0 ]

\* send_message suspended in ClientFactory.connect(url).
Connecting(n, url) == [ Idle EXCEPT !.op = "connect", !.n = n, !.url = url ]

\* send_message suspended in the event iteration of client.send_message.
Sending(n, url, client) ==
    [ Idle EXCEPT !.op = "send", !.n = n, !.url = url, !.client = << client >> ]

\* close suspended in client.close() of the pos-th value of a dict that had
\* size entries when the iteration started.
Closing(clients, pos, size) ==
    [ Idle EXCEPT !.op = "close", !.url = clients[pos].url,
                  !.client = << clients[pos].client >>,
                  !.pos = pos, !.size = size ]

\* How a call of the messenger ended: the call, whether it returned or
\* raised, and for close the number of entries the cache had when the
\* iteration started and the number of client.close() calls it made.
CallResult(op, kind, size, closed) ==
    [ op |-> op, kind |-> kind, size |-> size, closed |-> closed ]

\* No call has ended yet.
NoResult == CallResult(None, None, 0, 0)

\* What a send used: the client it read from the cache for its URL.
Use(url, client) == [ url |-> url, client |-> client ]

InitMessenger ==
    /\ m_tasks \in TaskSets
    /\ m_clients = << >>
    /\ m_call = [ t \in Tasks |-> Idle ]
    /\ m_sends = 0
    /\ m_connected = << >>
    /\ m_open = { }
    /\ m_used = << >>
    /\ m_closes = 0
    /\ m_closed = << >>
    /\ m_result = [ t \in Tasks |-> NoResult ]

\* send_message up to its first suspension: with the URL in the cache the
\* cached client is read and its send_message started; otherwise the task
\* suspends in ClientFactory.connect.
SendMessageCall ==
    /\ m_sends < MaxSends
    /\ \E t \in m_tasks : \E url \in Urls :
        /\ m_call[t].op = "idle"
        /\ IF HasClient(m_clients, url)
           THEN LET client == ClientOf(m_clients, url)
                IN  /\ m_call' = [ m_call EXCEPT
                                     ![t] = Sending(m_sends + 1, url, client) ]
                    /\ m_used' = Append(m_used, Use(url, client))
           ELSE /\ m_call' = [ m_call EXCEPT
                                 ![t] = Connecting(m_sends + 1, url) ]
                /\ UNCHANGED m_used
    /\ m_sends' = m_sends + 1
    /\ UNCHANGED << m_tasks, m_clients, m_connected, m_open, m_closes,
                    m_closed, m_result >>
    /\ UNCHANGED << collectorVars, storeVars, evalVars, judgeVars, graphVars, discoveryVars >>

\* ClientFactory.connect returns: the new client is stored under the URL,
\* read back and its send_message started.
ConnectReturns ==
    /\ \E t \in m_tasks :
        /\ m_call[t].op = "connect"
        /\ LET url == m_call[t].url
               new == Client(m_call[t].n, url)
               clients == SetClient(m_clients, url, new)
               client == ClientOf(clients, url)
           IN  /\ m_clients' = clients
               /\ m_connected' = Append(m_connected, new)
               /\ m_open' = m_open \cup { new }
               /\ m_call' = [ m_call EXCEPT
                                ![t] = Sending(m_call[t].n, url, client) ]
               /\ m_used' = Append(m_used, Use(url, client))
    /\ UNCHANGED << m_tasks, m_sends, m_closes, m_closed, m_result >>
    /\ UNCHANGED << collectorVars, storeVars, evalVars, judgeVars, graphVars, discoveryVars >>

\* ClientFactory.connect raises, or the task is cancelled while it waits:
\* send_message is left before the cache is written.
ConnectRaises ==
    /\ \E t \in m_tasks :
        /\ m_call[t].op = "connect"
        /\ m_call' = [ m_call EXCEPT ![t] = Idle ]
        /\ m_result' = [ m_result EXCEPT
                           ![t] = CallResult("send_message", "raise", 0, 0) ]
    /\ UNCHANGED << m_tasks, m_clients, m_sends, m_connected, m_open, m_used,
                    m_closes, m_closed >>
    /\ UNCHANGED << collectorVars, storeVars, evalVars, judgeVars, graphVars, discoveryVars >>

\* The event iteration ends: send_message returns the response text or "",
\* or the client raises, or the task is cancelled.
SendMessageEnds ==
    /\ \E t \in m_tasks :
        /\ m_call[t].op = "send"
        /\ m_call' = [ m_call EXCEPT ![t] = Idle ]
        /\ \E kind \in { "return", "raise" } :
            m_result' = [ m_result EXCEPT
                            ![t] = CallResult("send_message", kind, 0, 0) ]
    /\ UNCHANGED << m_tasks, m_clients, m_sends, m_connected, m_open, m_used,
                    m_closes, m_closed >>
    /\ UNCHANGED << collectorVars, storeVars, evalVars, judgeVars, graphVars, discoveryVars >>

\* close up to its first suspension: with an empty cache the loop body
\* never runs and the cache is cleared at once; otherwise the task suspends
\* in the first client's close().
CloseCall ==
    /\ m_closes < MaxCloses
    /\ \E t \in m_tasks :
        /\ m_call[t].op = "idle"
        /\ IF m_clients = << >>
           THEN /\ m_used' = << >>
                /\ m_connected' = << >>
                /\ m_result' = [ m_result EXCEPT
                                   ![t] = CallResult("close", "return", 0, 0) ]
                /\ m_clients' = Clear(m_clients)
                /\ UNCHANGED << m_call, m_closed >>
           ELSE /\ m_call' = [ m_call EXCEPT
                                 ![t] = Closing(m_clients, 1, Len(m_clients)) ]
                /\ m_closed' = Append(m_closed, m_clients[1].client)
                /\ UNCHANGED << m_clients, m_used, m_connected, m_result >>
    /\ m_closes' = m_closes + 1
    /\ UNCHANGED << m_tasks, m_sends, m_open >>
    /\ UNCHANGED << collectorVars, storeVars, evalVars, judgeVars, graphVars, discoveryVars >>

\* A client's close() returns and the loop goes on: the dict iterator
\* raises RuntimeError if the dict changed size, else the next client's
\* close() is awaited, and after the last one the cache is cleared.
CloseResume ==
    /\ \E t \in m_tasks :
        LET c == m_call[t]
        IN  /\ c.op = "close"
            /\ m_open' = m_open \ { c.client[1] }
            /\ IF Len(m_clients) # c.size
               THEN /\ m_call' = [ m_call EXCEPT ![t] = Idle ]
                    /\ m_result' = [ m_result EXCEPT
                           ![t] = CallResult("close", "raise", c.size, c.pos) ]
                    /\ UNCHANGED << m_clients, m_used, m_connected, m_closed >>
               ELSE IF c.pos < c.size
               THEN /\ m_call' = [ m_call EXCEPT
                           ![t] = Closing(m_clients, c.pos + 1, c.size) ]
                    /\ m_closed' = Append(m_closed, m_clients[c.pos + 1].client)
                    /\ UNCHANGED << m_clients, m_used, m_connected, m_result >>
               ELSE /\ m_clients' = Clear(m_clients)
                    /\ m_used' = << >>
                    /\ m_connected' = << >>
                    /\ m_call' = [ m_call EXCEPT ![t] = Idle ]
                    /\ m_result' = [ m_result EXCEPT
                           ![t] = CallResult("close", "return", c.size, c.pos) ]
                    /\ UNCHANGED m_closed
    /\ UNCHANGED << m_tasks, m_sends, m_closes >>
    /\ UNCHANGED << collectorVars, storeVars, evalVars, judgeVars, graphVars, discoveryVars >>

\* A client's close() raises, or the task is cancelled while it waits: close
\* is left with the remaining clients not closed and the cache as it is.
ClientCloseRaises ==
    /\ \E t \in m_tasks :
        LET c == m_call[t]
        IN  /\ c.op = "close"
            /\ m_call' = [ m_call EXCEPT ![t] = Idle ]
            /\ m_result' = [ m_result EXCEPT
                   ![t] = CallResult("close", "raise", c.size, c.pos) ]
    /\ UNCHANGED << m_tasks, m_clients, m_sends, m_connected, m_open, m_used,
                    m_closes, m_closed >>
    /\ UNCHANGED << collectorVars, storeVars, evalVars, judgeVars, graphVars, discoveryVars >>

NextMessenger ==
    \/ SendMessageCall
    \/ ConnectReturns
    \/ ConnectRaises
    \/ SendMessageEnds
    \/ CloseCall
    \/ CloseResume
    \/ ClientCloseRaises

\* ======================================================== PeerDiscovery
\* common/peer_discovery.py.  get_peers answers from the cache while it is
\* valid; otherwise it joins the static peers with the peers the Green
\* registry answers, removes duplicates, and caches the result with the
\* time.  It suspends once, inside _fetch_green_peers, while the GET
\* /peers request is in flight; meanwhile another task can call get_peers
\* or invalidate_cache.

\* An item of a JSON list that cannot be a dict key (an object or a list).
UnhashableItem == "{}"

\* The tasks that call get_peers on one PeerDiscovery.
Callers == { 1, 2 }

\* Peer lists a PeerDiscovery is constructed with.
StaticPeerLists == { << >>, << "a" >>, << "a", "b" >>, << "b", "a", "b" >> }

\* green_url arguments: none, the empty string, a registry URL.
GreenUrls == { None, "", "http://green:8000" }

\* Values of data["peers"] in a response whose body has the expected shape.
GreenPeerLists ==
    { << >>, << "a" >>, << "c" >>, << "c", "a", "c" >>, << UnhashableItem >> }

\* Ways the GET /peers request can end: a body {"peers": [...]}, or
\*   timeout         httpx.TimeoutException,
\*   http_error      raise_for_status() raises httpx.HTTPStatusError,
\*   invalid_json    response.json() raises,
\*   invalid_format  the body is no dict, has no "peers", or "peers" is
\*                   no list,
\*   exception       any other exception (connection refused, ...).
FailureKinds ==
    { "timeout", "http_error", "invalid_json", "invalid_format", "exception" }
RegistryResponses ==
    { [ kind |-> "list", peers |-> p ] : p \in GreenPeerLists }
    \cup { [ kind |-> k, peers |-> << >> ] : k \in FailureKinds }

\* _is_cache_valid at time t
_is_cache_valid(cached_peers, cache_timestamp, cache_ttl, t) ==
    IF cached_peers = << >> \/ cache_timestamp = << >>
    THEN FALSE
    ELSE t - cache_timestamp[1] < cache_ttl

\* _fetch_green_peers, given how the request ended: every exception is
\* caught and gives [], a body of the wrong shape gives [], and a "peers"
\* list is returned as it is.
_fetch_green_peers(response) ==
    IF response.kind = "list" THEN response.peers ELSE << >>

\* if green_peers: peers.extend(green_peers)
Extend(peers, green_peers) ==
    IF green_peers # << >> THEN peers \o green_peers ELSE peers

\* dict.fromkeys(peers) raises TypeError on an item it cannot hash.
FromKeysRaises(peers) == \E i \in DOMAIN peers : peers[i] = UnhashableItem

\* list(dict.fromkeys(peers)): the first occurrence of every peer, in order.
RECURSIVE UniquePeers(_)
UniquePeers(peers) ==
    IF peers = << >>
    THEN << >>
    ELSE LET rest == UniquePeers(SubSeq(peers, 1, Len(peers) - 1))
             last == peers[Len(peers)]
         IN IF \E i \in DOMAIN rest : rest[i] = last
            THEN rest
            ELSE Append(rest, last)

\* How the last get_peers call went (none yet: kind "none").
\*   valid      the cache was valid when the call was made
\*   explicit   invalidate_cache() had emptied the cache before the call
\*   degraded   the cache the call met came from a failed registry request
\*   requests   registry requests the call made
\*   response   how its registry request ended ("none": no request)
\*   before     the cache the call met
\*   cached, stamp, time   the cache, its timestamp and the clock when the
\*                         call ended
NoPeersResult ==
    [ kind |-> "none", value |-> << >>, valid |-> FALSE, explicit |-> FALSE,
      degraded |-> FALSE, requests |-> 0, response |-> "none",
      peers |-> << >>, before |-> << >>, cached |-> << >>, stamp |-> << >>,
      time |-> 0 ]

InitDiscovery ==
    /\ d_static \in StaticPeerLists
    /\ d_green_url \in GreenUrls
    /\ d_cache_ttl \in 0 .. MaxTtl
    /\ d_cached_peers = << >>
    /\ d_cache_timestamp = << >>
    /\ d_now = 0
    /\ d_pc = [ t \in Callers |-> "idle" ]
    /\ d_gets = 0
    /\ d_requests = 0
    /\ d_invalidated = FALSE
    /\ d_degraded = FALSE
    /\ d_met = [ t \in Callers |-> NoPeersResult ]
    /\ d_result = NoPeersResult

\* What a get_peers call meets when it starts.
Met ==
    [ NoPeersResult EXCEPT
        !.valid = _is_cache_valid(d_cached_peers, d_cache_timestamp,
                                  d_cache_ttl, d_now),
        !.explicit = d_invalidated,
        !.degraded = d_degraded,
        !.before = d_cached_peers ]

\* get_peers while the cache is valid: return self._cached_peers or [].
GetPeersCached ==
    /\ \E t \in Callers : d_pc[t] = "idle"
    /\ d_gets < MaxGets
    /\ _is_cache_valid(d_cached_peers, d_cache_timestamp, d_cache_ttl, d_now)
    /\ d_gets' = d_gets + 1
    /\ d_result' = [ Met EXCEPT !.kind = "return",
                                !.value = d_cached_peers[1],
                                !.cached = d_cached_peers,
                                !.stamp = d_cache_timestamp,
                                !.time = d_now ]
    /\ UNCHANGED << d_static, d_green_url, d_cache_ttl, d_cached_peers,
                    d_cache_timestamp, d_now, d_pc, d_requests,
                    d_invalidated, d_degraded, d_met >>
    /\ UNCHANGED << collectorVars, storeVars, evalVars, judgeVars, graphVars, messengerVars >>

\* get_peers without a registry URL: the static peers, deduplicated and
\* cached.
GetPeersStatic ==
    /\ \E t \in Callers : d_pc[t] = "idle"
    /\ d_gets < MaxGets
    /\ ~_is_cache_valid(d_cached_peers, d_cache_timestamp, d_cache_ttl, d_now)
    /\ d_green_url \in { None, "" }
    /\ d_gets' = d_gets + 1
    /\ d_cached_peers' = << UniquePeers(d_static) >>
    /\ d_cache_timestamp' = << d_now >>
    /\ d_invalidated' = FALSE
    /\ d_degraded' = FALSE
    /\ d_result' = [ Met EXCEPT !.kind = "return",
                                !.value = UniquePeers(d_static),
                                !.cached = d_cached_peers',
                                !.stamp = d_cache_timestamp',
                                !.time = d_now ]
    /\ UNCHANGED << d_static, d_green_url, d_cache_ttl, d_now, d_pc,
                    d_requests, d_met >>
    /\ UNCHANGED << collectorVars, storeVars, evalVars, judgeVars, graphVars, messengerVars >>

\* get_peers with a registry URL and no valid cache: the GET /peers request
\* is sent and the call suspends.
GetPeersFetch ==
    /\ d_gets < MaxGets
    /\ ~_is_cache_valid(d_cached_peers, d_cache_timestamp, d_cache_ttl, d_now)
    /\ d_green_url \notin { None, "" }
    /\ d_gets' = d_gets + 1
    /\ d_requests' = d_requests + 1
    /\ \E t \in Callers :
         /\ d_pc[t] = "idle"
         /\ d_pc' = [ d_pc EXCEPT ![t] = "fetching" ]
         /\ d_met' = [ d_met EXCEPT ![t] = Met ]
    /\ UNCHANGED << d_static, d_green_url, d_cache_ttl, d_cached_peers,
                    d_cache_timestamp, d_now, d_invalidated, d_degraded,
                    d_result >>
    /\ UNCHANGED << collectorVars, storeVars, evalVars, judgeVars, graphVars, messengerVars >>

\* The request ends and get_peers returns: the joined list is deduplicated
\* and cached with the time of the return.
FetchReturns ==
    /\ \E t \in Callers : \E response \in RegistryResponses :
         LET green_peers == _fetch_green_peers(response)
             peers == Extend(d_static, green_peers)
         IN /\ d_pc[t] = "fetching"
            /\ ~FromKeysRaises(peers)
            /\ d_cached_peers' = << UniquePeers(peers) >>
            /\ d_cache_timestamp' = << d_now >>
            /\ d_degraded' = ( response.kind # "list" )
            /\ d_result' = [ d_met[t] EXCEPT !.kind = "return",
                                          !.value = UniquePeers(peers),
                                          !.requests = 1,
                                          !.response = response.kind,
                                          !.peers = response.peers,
                                          !.cached = d_cached_peers',
                                          !.stamp = d_cache_timestamp',
                                          !.time = d_now ]
            /\ d_pc' = [ d_pc EXCEPT ![t] = "idle" ]
            /\ d_met' = [ d_met EXCEPT ![t] = NoPeersResult ]
    /\ d_invalidated' = FALSE
    /\ UNCHANGED << d_static, d_green_url, d_cache_ttl, d_now, d_gets,
                    d_requests >>
    /\ UNCHANGED << collectorVars, storeVars, evalVars, judgeVars, graphVars, messengerVars >>

\* The request ends and get_peers raises the TypeError of dict.fromkeys.
\* The call leaves the cache as it is.
FetchRaises ==
    /\ \E t \in Callers : \E response \in RegistryResponses :
         LET green_peers == _fetch_green_peers(response)
             peers == Extend(d_static, green_peers)
         IN /\ d_pc[t] = "fetching"
            /\ FromKeysRaises(peers)
            /\ d_result' = [ d_met[t] EXCEPT !.kind = "raise",
                                          !.requests = 1,
                                          !.response = response.kind,
                                          !.peers = response.peers,
                                          !.cached = d_cached_peers,
                                          !.stamp = d_cache_timestamp,
                                          !.time = d_now ]
            /\ d_pc' = [ d_pc EXCEPT ![t] = "idle" ]
            /\ d_met' = [ d_met EXCEPT ![t] = NoPeersResult ]
    /\ UNCHANGED << d_static, d_green_url, d_cache_ttl, d_cached_peers,
                    d_cache_timestamp, d_now, d_gets, d_requests,
                    d_invalidated, d_degraded >>
    /\ UNCHANGED << collectorVars, storeVars, evalVars, judgeVars, graphVars, messengerVars >>

\* invalidate_cache(): a plain method, called between get_peers calls or
\* while one is suspended.
InvalidateCache ==
    /\ d_gets < MaxGets
    /\ d_cached_peers' = << >>
    /\ d_cache_timestamp' = << >>
    /\ d_invalidated' = TRUE
    /\ d_degraded' = FALSE
    /\ UNCHANGED << d_static, d_green_url, d_cache_ttl, d_now, d_pc, d_gets,
                    d_requests, d_met, d_result >>
    /\ UNCHANGED << collectorVars, storeVars, evalVars, judgeVars, graphVars, messengerVars >>

\* time.time() moves on, between calls or while the request is in flight.
DiscoveryTick ==
    /\ d_now < MaxClock
    /\ d_now' = d_now + 1
    /\ UNCHANGED << d_static, d_green_url, d_cache_ttl, d_cached_peers,
                    d_cache_timestamp, d_pc, d_gets, d_requests,
                    d_invalidated, d_degraded, d_met, d_result >>
    /\ UNCHANGED << collectorVars, storeVars, evalVars, judgeVars, graphVars, messengerVars >>

NextDiscovery ==
    \/ GetPeersCached
    \/ GetPeersStatic
    \/ GetPeersFetch
    \/ FetchReturns
    \/ FetchRaises
    \/ InvalidateCache
    \/ DiscoveryTick

\* ============================================================ specifications
\* An Executor nobody calls execute_task on.
CollectorAtRest ==
    /\ InitCollector
    /\ cfg = [ coordination_rounds |-> 0, round_delay_seconds |-> 1,
               trace_collection |-> << >> ]

\* An evaluate_all nobody calls, with no evaluators.
EvalAtRest ==
    /\ InitEval
    /\ evaluators = [ graph |-> CHOOSE e \in GraphEvaluators : e.absent,
                      llm |-> CHOOSE e \in LlmJudges : e.absent,
                      latency |-> CHOOSE e \in LatencyEvaluators : e.absent ]

\* An llm_evaluate nobody calls.
JudgeAtRest ==
    /\ InitJudge
    /\ j_steps = << >>
    /\ j_judge = [ kind |-> "responds", error |-> None,
                   content |-> [ form |-> "none", payload |-> NoPayload ] ]

\* A GraphEvaluator nobody calls.
GraphAtRest ==
    /\ InitGraph
    /\ g_traces = << >>

\* A Messenger nobody calls.
MessengerAtRest ==
    /\ InitMessenger
    /\ m_tasks = { 1 }

\* A PeerDiscovery nobody calls.
DiscoveryAtRest ==
    /\ InitDiscovery
    /\ d_static = << >>
    /\ d_green_url = None
    /\ d_cache_ttl = 0

\* The collector alone: one execute_task call.
InitSpecCollector == InitCollector /\ InitStore /\ EvalAtRest /\ JudgeAtRest /\ GraphAtRest /\ MessengerAtRest /\ DiscoveryAtRest
SpecCollector == InitSpecCollector /\ [][NextCollector]_vars

\* The store alone, called from several threads.
InitSpecStore == CollectorAtRest /\ InitStore /\ EvalAtRest /\ JudgeAtRest /\ GraphAtRest /\ MessengerAtRest /\ DiscoveryAtRest
SpecStore == InitSpecStore /\ [][NextStore]_vars

\* The orchestrator alone: one evaluate_all call.
InitSpecEval == CollectorAtRest /\ InitStore /\ InitEval /\ JudgeAtRest /\ GraphAtRest /\ MessengerAtRest /\ DiscoveryAtRest
SpecEval == InitSpecEval /\ [][NextEval]_vars

\* The judge alone: one llm_evaluate call.
InitSpecJudge == CollectorAtRest /\ InitStore /\ EvalAtRest /\ InitJudge /\ GraphAtRest /\ MessengerAtRest /\ DiscoveryAtRest
SpecJudge == InitSpecJudge /\ [][NextJudge]_vars

\* The graph evaluator alone: registrations, then one evaluate call.
InitSpecGraph == CollectorAtRest /\ InitStore /\ EvalAtRest /\ JudgeAtRest /\ InitGraph /\ MessengerAtRest /\ DiscoveryAtRest
SpecGraph == InitSpecGraph /\ [][NextGraph]_vars

\* The messenger alone: send_message and close calls from one or two tasks.
InitSpecMessenger == CollectorAtRest /\ InitStore /\ EvalAtRest /\ JudgeAtRest /\ GraphAtRest /\ InitMessenger /\ DiscoveryAtRest
SpecMessenger == InitSpecMessenger /\ [][NextMessenger]_vars

\* PeerDiscovery alone: one caller's get_peers and invalidate_cache calls.
InitSpecDiscovery == CollectorAtRest /\ InitStore /\ EvalAtRest /\ JudgeAtRest /\ GraphAtRest /\ MessengerAtRest /\ InitDiscovery
SpecDiscovery == InitSpecDiscovery /\ [][NextDiscovery]_vars

\* Adaptive collection with a monotonic clock that advances in every round:
\* a round that goes back to the loop head has taken a positive amount of
\* time.  The event loop keeps running the coroutine, and every await of a
\* round ends (with the send's result or with the expiry of its timeout).
RoundAdvancesClock ==
    ( pc = "adaptive_await" /\ pc' = "adaptive_loop" ) => now' > now
NextCollectorLive ==
    \/ AdaptiveStart
    \/ AdaptiveHardTimeout
    \/ AdaptiveSend
    \/ AdaptiveResponse /\ RoundAdvancesClock
    \/ AdaptiveTimeout
    \/ AdaptiveRaise
    \/ Finally
    \/ CloseReturns
    \/ CloseRaises
    \/ Exit
InitSpecCollectorLive == InitSpecCollector /\ cfg.trace_collection # << >>
SpecCollectorLive ==
    InitSpecCollectorLive /\ [][NextCollectorLive]_vars /\ WF_vars(NextCollectorLive)

\* ============================================================ collector claims
Adaptive == cfg.trace_collection # << >>
Sends == { i \in DOMAIN log : log[i].ev = "send_message" }
NumSends == Cardinality(Sends)
NumCloses == Cardinality({ i \in DOMAIN log : log[i].ev = "close" })
LeftLoop == pc \in { "finally", "closing", "exit", "done" }
\* messenger.close() was called and raised.
CloseRaised ==
    /\ pc \in { "exit", "done" }
    /\ pending.kind = "raise"
    /\ pending.error \in CloseErrors
\* A payload that is a structured "complete" signal.
SignalsComplete(r) == r.json /\ r.dict /\ r.status = "complete"

\* C1: in every call of execute_task, fixed-rounds or adaptive, messenger.close()
\* is invoked exactly once, and only after the last send_message, whichever way
\* the call ends (normal return, hard timeout, idle expiry, completion signal,
\* send_message raising).
C1_CloseOnceAfterLastSend ==
    /\ NumCloses <= 1
    /\ \A i \in DOMAIN log : log[i].ev = "close" => i = Len(log)
    /\ NumCloses = 1 => ~inflight.active
    /\ pc = "done" =>
        /\ NumCloses = 1
        /\ outcome.kind \in { "return", "raise" }
        /\ stop_reason \in { "rounds", "hard_timeout", "idle", "complete", "error" }

\* C1 witness: an adaptive call whose send raised in a later round has ended,
\* and close() is the last call made on the messenger.
C1_Witness ==
    /\ pc = "done" /\ Adaptive /\ outcome.kind = "raise"
    /\ NumSends >= 2
    /\ log[Len(log)].ev = "close"

C5_DeadlineBoundsEverySend ==
    ( Adaptive /\ pc # "idle" ) =>
        /\ NumSends >= 1 =>
            /\ deadline - inflight.start > 0
            /\ await_end - inflight.start
                 <= Min(Config.idle_threshold_seconds, deadline - inflight.start)
            /\ await_end <= deadline
        /\ inflight.active =>
            inflight.start + inflight.timeout <= deadline
        /\ now <= deadline

\* C5 witness: a send was cut off by the remaining time, not by the (longer)
\* idle threshold, exactly at the deadline.
C5_Witness ==
    /\ pc = "done" /\ Adaptive /\ timed_out
    /\ Len(traces) >= 1
    /\ Config.idle_threshold_seconds > deadline - inflight.start
    /\ await_end = deadline

LinearChain(s) ==
    /\ \A i \in DOMAIN s : s[i].trace_id = s[1].trace_id
    /\ \A i, j \in DOMAIN s : i # j => s[i].step_id # s[j].step_id
    /\ \A i \in DOMAIN s :
          s[i].parent_step_id = IF i = 1 THEN None ELSE s[i - 1].step_id
    /\ \A i \in DOMAIN s : i > 1 => s[i - 1].end_time <= s[i].start_time

\* C7: every step list execute_task returns, under either policy, is in round
\* order, shares one trace_id, has pairwise distinct step_ids, starts with a
\* step without parent, and links every later step to the step just before it.
C7_ReturnedStepsFormLinearChain ==
    /\ LinearChain(traces)
    /\ ( pc = "done" /\ outcome.kind = "return" ) => LinearChain(outcome.value)

\* C7 witness: a returned list of three steps.
C7_Witness ==
    /\ pc = "done" /\ outcome.kind = "return" /\ Len(outcome.value) = 3


\* ================================================================ store claims
RECURSIVE SumLen(_)
SumLen(bs) == IF bs = << >> THEN 0 ELSE Len(bs[1]) + SumLen(Tail(bs))

Quiescent == \A t \in Threads : tpc[t] = "idle"

\* How often the element k of batch b is stored.
Stored(b, k) ==
    Cardinality({ i \in DOMAIN store_traces :
                    store_traces[i].batch = b /\ store_traces[i].pos = k })

\* C8: after any interleaving of concurrent add_traces and register_agent calls
\* no update is lost: the store holds as many steps as the added batches have
\* together (an empty batch adds nothing) and exactly the distinct URLs
\* registered.
C8_NoLostUpdate ==
    ( Quiescent /\ ~removed ) =>
        /\ Len(store_traces) = SumLen(batches)
        /\ \A b \in DOMAIN batches : \A k \in DOMAIN batches[b] : Stored(b, k) = 1
        /\ registered_agents = registered

\* C8 witness: both threads have added the same single step, an empty batch or
\* a registration came with them, and the store holds the step twice.
C8_Witness ==
    /\ Quiescent /\ ~removed /\ calls = 3
    /\ \A t \in Threads : call[t].name = "add_traces"
                          /\ batches[call[t].batch] = << SampleTraces[1] >>
    /\ Len(store_traces) = 2
    /\ store_traces[1].step = store_traces[2].step

\* The part of a returned list that comes from batch b.
FromBatch(list, b) ==
    LET IsOfBatch(e) == e.batch = b
    IN  SelectSeq(list, IsOfBatch)

\* Batch b as stored, whole, and what of it a read of trace_id tid must return.
WholeBatch(b) == [ k \in DOMAIN batches[b] |-> Entry(b, k) ]
WholeBatchOf(b, tid) ==
    LET Matches(e) == e.step.trace_id = tid
    IN  SelectSeq(WholeBatch(b), Matches)

Reads == { "get_all_traces", "get_traces_by_id" }
HasReturned(t) == tpc[t] \in { "release", "idle" }

\* C9: every TraceStore operation runs entirely while holding the one store
\* lock, so no reader sees a partially appended batch: a list returned by
\* get_all_traces or get_traces_by_id holds, of each added batch, either all of
\* its (matching) steps in batch order or none.
C9_NoPartialBatchObserved ==
    /\ \A t \in Threads : tpc[t] \in { "body", "release" } => lock = t
    /\ \A t \in Threads :
          ( call[t].name \in Reads /\ HasReturned(t) ) =>
              \A b \in DOMAIN batches :
                  LET got == FromBatch(ret[t].list, b)
                      all == IF call[t].name = "get_all_traces" THEN WholeBatch(b)
                             ELSE WholeBatchOf(b, call[t].trace_id)
                  IN  got = << >> \/ got = all

\* C9 witness: get_traces_by_id returned the matching steps of two batches that
\* the other thread's adds had stored, while a third stored step did not match.
C9_Witness ==
    \E t \in Threads :
        /\ call[t].name = "get_traces_by_id" /\ tpc[t] = "idle"
        /\ Len(ret[t].list) = 2
        /\ Len(store_traces) = 3
        /\ Len(batches) = 2

\* ============================================================ evaluator claims
AllPresent ==
    /\ ~evaluators.graph.absent
    /\ ~evaluators.llm.absent
    /\ ~evaluators.latency.absent

\* A slot holds the evaluator's result (as a plain dict) or its error marker.
SlotOf(v, evaluator) ==
    IF evaluator.raises
    THEN v.type = "dict" /\ v.fields = "error" /\ v.error = evaluator.message
    ELSE v.type = "dict" /\ v.fields = evaluator.result.fields /\ v.error = None

\* C10: evaluate_all never raises: whichever of the three evaluators succeed or
\* raise, it returns a report with the keys tier1_graph, tier2_llm and
\* tier2_latency, each holding that evaluator's result or an error marker.
C10_EvaluateAllNeverRaises ==
    /\ report.kind # "raise"
    /\ ev_pc = "done" =>
        /\ report.kind = "return"
        /\ report.keys = { "tier1_graph", "tier2_llm", "tier2_latency" }
        /\ AllPresent =>
            /\ SlotOf(report.tier1_graph, evaluators.graph)
            /\ SlotOf(report.tier2_llm, evaluators.llm)
            /\ SlotOf(report.tier2_latency, evaluators.latency)

\* C10 witness: all three evaluators raised and evaluate_all returned a report.
C10_Witness ==
    /\ ev_pc = "done" /\ report.kind = "return"
    /\ evaluators.graph.raises /\ evaluators.llm.raises /\ evaluators.latency.raises
    /\ Len(ev_calls) = 3

\* How often evaluate() of the named evaluator was invoked.
Invocations(name) ==
    Cardinality({ i \in DOMAIN ev_calls : ev_calls[i].evaluator = name })

\* One tier seen from the report: its evaluator was invoked exactly once, and
\* either it raised and the slot is the marker {"error": message}, or it
\* returned and the slot is the value it returned (TierExact), or that
\* value as evaluate_all converts a Tier 1 result (TierConverted).
TierExact(v, evaluator, name) ==
    /\ Invocations(name) = 1
    /\ IF evaluator.raises THEN v = ErrorMarker(evaluator.message)
       ELSE v = evaluator.result
TierConverted(v, evaluator, name) ==
    /\ Invocations(name) = 1
    /\ IF evaluator.raises THEN v = ErrorMarker(evaluator.message)
       ELSE /\ v = ConvertTier1(evaluator.result)
            /\ v # PyNone
            /\ v.type = "dict"
            /\ v.fields = evaluator.result.fields
            /\ v.error = None

SomeEvaluatorRaises ==
    evaluators.graph.raises \/ evaluators.llm.raises \/ evaluators.latency.raises

\* C11 as claimed: tier isolation.  When an evaluator raises inside
\* evaluate_all only its own slot becomes the marker {"error": message};
\* every other evaluator is still invoked exactly once and its slot holds
\* exactly the value it returned.
C11_TierIsolation ==
    ( ev_pc = "done" /\ AllPresent /\ SomeEvaluatorRaises ) =>
        /\ report.kind = "return"
        /\ TierExact(report.tier1_graph, evaluators.graph, "graph_evaluator")
        /\ TierExact(report.tier2_llm, evaluators.llm, "llm_judge")
        /\ TierExact(report.tier2_latency, evaluators.latency, "latency_evaluator")

\* C11 amended: tier isolation.  When an evaluator raises inside evaluate_all
\* only its own slot becomes the marker {"error": message}; every other
\* evaluator is still invoked exactly once; tier2_llm and tier2_latency hold
\* exactly the value their evaluator returned, and tier1_graph holds the
\* value the structural evaluator returned converted to a plain dict (the
\* model_dump() of a returned model, a returned dict as it is), non-null
\* and with the content the evaluator returned.
C11_TierIsolationWithTier1AsDict ==
    ( ev_pc = "done" /\ AllPresent /\ SomeEvaluatorRaises ) =>
        /\ report.kind = "return"
        /\ TierConverted(report.tier1_graph, evaluators.graph, "graph_evaluator")
        /\ TierExact(report.tier2_llm, evaluators.llm, "llm_judge")
        /\ TierExact(report.tier2_latency, evaluators.latency, "latency_evaluator")

\* C11 witness: the judge raised, the structural evaluator returned a model
\* and the latency evaluator a dict; the report carries the model's dump, one
\* marker and the latency result.
C11_Witness ==
    /\ ev_pc = "done" /\ report.kind = "return"
    /\ AllPresent
    /\ evaluators.llm.raises
    /\ ~evaluators.graph.raises /\ evaluators.graph.result.type = "model"
    /\ ~evaluators.latency.raises
    /\ report.tier1_graph = ModelDump(evaluators.graph.result)
    /\ report.tier1_graph # evaluators.graph.result
    /\ report.tier2_llm.fields = "error"
    /\ report.tier2_latency = evaluators.latency.result

\* ================================================================ judge claims
\* The external judge failed: its client or its call raised, or the body is
\* missing, empty, or not a judgment that validates.
JudgeFailed ==
    \/ j_judge.kind \in { "client_raises", "api_raises" }
    \/ j_judge.content.form # "json_object"
    \/ j_judge.content.payload.overall_score \notin 0 .. 10

\* C12: llm_evaluate never raises and treats every failure of the external
\* judge alike: a raised error, an empty body, or a payload that does not parse
\* or validate all give exactly rule_based_evaluate(steps); only a payload that
\* parses and validates is returned as the judgment.
C12_JudgeFailureFallsBack ==
    j_pc = "done" =>
        /\ j_outcome.kind = "return"
        /\ IF JudgeFailed
           THEN j_outcome.value = rule_based_evaluate(j_steps)
           ELSE j_outcome.value = j_judge.content.payload

\* C12 witness: the call raised an error that is neither a connection error nor
\* a timeout, and llm_evaluate returned the rule-based judgment of two steps.
C12_Witness ==
    /\ j_pc = "done"
    /\ j_judge.kind = "api_raises" /\ j_judge.error = "APIError"
    /\ Len(j_steps) = 2
    /\ j_outcome.kind = "return"
    /\ j_outcome.value.reasoning.text = "Rule-based evaluation"

\* The score of the rules, in tenths, stated from the step list alone.
ExpectedScore(steps) ==
    LET total == SumLatency(steps)
        n == Len(steps)
        raw == 8 - ( IF \E i \in DOMAIN steps : steps[i].error # None THEN 3 ELSE 0 )
                 - ( IF total > 2000 * n THEN 2
                     ELSE IF total > 1000 * n THEN 1 ELSE 0 )
                 + ( IF n > 1 THEN 1 ELSE 0 )
    IN  IF raw < 0 THEN 0 ELSE IF raw > 10 THEN 10 ELSE raw

ExpectedQuality(score) ==
    IF score >= 7 THEN "high" ELSE IF score >= 3 THEN "medium" ELSE "low"

\* C13: for a non-empty step list rule_based_evaluate returns the score 0.8,
\* minus 0.3 with any error, minus 0.2 for an average latency above 2000 ms or
\* else 0.1 above 1000 ms, plus 0.1 for more than one step, clamped to [0,1];
\* the quality is high from 0.7, medium from 0.3, else low; one error-free
\* step of 100 ms scores at least 0.7.
C13_RuleBasedScore ==
    ( j_pc = "done" /\ JudgeFailed /\ j_steps # << >> ) =>
        /\ j_outcome.value.overall_score = ExpectedScore(j_steps)
        /\ j_outcome.value.coordination_quality
              = ExpectedQuality(ExpectedScore(j_steps))
        /\ ( j_steps = << [ error |-> None, latency |-> << 100 >> ] >> )
              => j_outcome.value.overall_score >= 7

\* C13 witness: two steps, one with an error, average latency above 2000 ms:
\* 0.8 - 0.3 - 0.2 + 0.1 = 0.4, medium.
C13_Witness ==
    /\ j_pc = "done" /\ JudgeFailed
    /\ Len(j_steps) = 2
    /\ j_steps[1].error # None
    /\ SumLatency(j_steps) > 2000 * 2
    /\ j_outcome.value.overall_score = 4
    /\ j_outcome.value.coordination_quality = "medium"

\* ================================================================ graph claims
\* The graph has been built from a non-empty step list.
GraphBuilt == g_pc \in { "plugins", "done" } /\ g_traces # << >>

StepIdsOf(steps) == { steps[i].step_id : i \in DOMAIN steps }
ParentIdsOf(steps) ==
    { steps[i].parent_step_id : i \in DOMAIN steps } \ { None }
EdgesOf(steps) ==
    { << steps[i].parent_step_id, steps[i].step_id >> :
        i \in { k \in DOMAIN steps : steps[k].parent_step_id # None } }
NoNodeTwice(graph) ==
    \A i, j \in DOMAIN graph.nodes : i # j => graph.nodes[i] # graph.nodes[j]

\* C14 as stated: the nodes of the built graph are exactly the distinct
\* step_ids of the list, the edges exactly the pairs parent_step_id -> step_id.
C14_NodesAreStepIds ==
    GraphBuilt =>
        /\ NoNodeTwice(g_graph)
        /\ Range(g_graph.nodes) = StepIdsOf(g_traces)
        /\ g_graph.edges = EdgesOf(g_traces)

\* C14 amended: the built graph has exactly one node per distinct identifier
\* that appears in the list as a step_id or as a parent_step_id, and exactly
\* one edge parent_step_id -> step_id for every step with a parent (equal
\* pairs collapsing); a step without parent contributes only its node.
C14_NodesAreStepAndParentIds ==
    GraphBuilt =>
        /\ NoNodeTwice(g_graph)
        /\ Range(g_graph.nodes) = StepIdsOf(g_traces) \cup ParentIdsOf(g_traces)
        /\ g_graph.edges = EdgesOf(g_traces)

\* C14 witness: the list holds step b twice with parent a and no step a; the
\* graph has the nodes b and a and the single edge a -> b.
C14_Witness ==
    /\ GraphBuilt
    /\ g_traces = << [ step_id |-> "b", parent_step_id |-> "a" ],
                     [ step_id |-> "b", parent_step_id |-> "a" ] >>
    /\ g_graph.nodes = << "b", "a" >>
    /\ g_graph.edges = { << "a", "b" >> }

\* evaluate returned metrics for a non-empty step list.
GraphReported == g_pc = "done" /\ g_outcome.kind = "return" /\ g_traces # << >>

\* The caller registered a plugin under the name of a built-in metric.
OverridesBuiltin ==
    \E i \in DOMAIN g_registered : g_registered[i].name \in BuiltinKeys

\* What the built-in degree centrality computes for the built graph.
BuiltinDegreeCentrality ==
    MapValue("DegreeCentralityPlugin", DegreeCentrality(g_graph))

\* C15: when a caller registers a plugin under the name of a built-in metric,
\* the built-in takes precedence: the value evaluate reports under that name,
\* and the findings derived from it, are those of the built-in computation.
C15_BuiltinTakesPrecedence ==
    ( GraphReported /\ OverridesBuiltin ) =>
        /\ g_outcome.metrics.degree_centrality = BuiltinDegreeCentrality
        /\ g_outcome.metrics.isolated_agents
              = IsolatedAgents(BuiltinDegreeCentrality, g_graph)

\* How often compute() of the plugin registered under the name was called.
Executions(name) ==
    Cardinality({ i \in DOMAIN g_executed : g_executed[i] = name })

\* The value reported under a registration name: a metric field for a built-in
\* name, an extra key otherwise.
ReportedBy(metrics, name) ==
    IF name = "degree_centrality" THEN { metrics.degree_centrality.by }
    ELSE { metrics.extra[i].value.by :
             i \in { k \in DOMAIN metrics.extra : metrics.extra[k].name = name } }

\* C16: every plugin registered on a GraphEvaluator is executed on every
\* evaluate call, for every step list, and the result of each custom plugin
\* appears in the returned metrics under its registration name.
C16_EveryPluginExecutedAndReported ==
    g_pc = "done" =>
        /\ \A i \in DOMAIN g_plugins : Executions(g_plugins[i].name) = 1
        /\ g_outcome.kind = "return"
        /\ \A i \in DOMAIN g_plugins :
              g_plugins[i].class \in CustomClasses =>
                  ReportedBy(g_outcome.metrics, g_plugins[i].name)
                      = { g_plugins[i].class }

\* The nodes of the built graph that are neither source nor target of an edge.
NodesWithoutEdge ==
    { n \in Range(g_graph.nodes) : Degree(g_graph, n) = 0 }

\* C17: isolated_agents is exactly the set of graph nodes with degree 0, the
\* nodes that are neither source nor target of any edge; a step list of one
\* parentless step reports that step as isolated.
C17_IsolatedAreDegreeZeroNodes ==
    ( GraphReported /\ g_registered = << >> ) =>
        Range(g_outcome.metrics.isolated_agents) = NodesWithoutEdge

\* C18: no failure raised while computing a structural metric, by any
\* registered plugin or by the path metrics, leaves evaluate: the failing
\* metric is replaced by zero values (0.0 for every node for closeness and
\* eigenvector centrality) and evaluate still returns a GraphMetrics.
C18_MetricFailureNeverPropagates ==
    ( g_pc = "done" /\ g_traces # << >> ) =>
        /\ g_outcome.kind = "return"
        /\ g_outcome.metrics.closeness_centrality.type = "map" =>
              g_outcome.metrics.closeness_centrality
                  = ZeroPerNode("ClosenessCentralityPlugin", g_graph)
        /\ g_outcome.metrics.eigenvector_centrality.type = "map" =>
              g_outcome.metrics.eigenvector_centrality
                  = ZeroPerNode("EigenvectorCentralityPlugin", g_graph)

\* C19: for every step list, repeated step_ids and steps naming themselves
\* as parent included, the graph_density reported by evaluate lies in
\* [0, 1]: the number of distinct edges never exceeds n * (n - 1).
C19_DensityWithinUnitInterval ==
    ( GraphReported /\ g_registered = << >> ) =>
        LET d == g_outcome.metrics.graph_density.scalar
        IN  /\ 0 <= d.num
            /\ d.num <= d.den

\* The URLs for which a send obtained a client since the last close.
UrlsUsed == { m_used[i].url : i \in DOMAIN m_used }

\* The messenger is called by one task only, so that its calls form a
\* sequence, and that task is not inside close().
SequentialBetweenCloses == m_tasks = { 1 } /\ m_call[1].op # "close"

\* C20: a connection to a URL is opened only by the first send_message to
\* that URL and reused afterwards: for a sequence of send_message calls
\* between two close() calls, as many connections were opened as distinct
\* URLs were used, and every send used the connection the cache holds for
\* its own URL.
C20_OneConnectionPerUrl ==
    SequentialBetweenCloses =>
        /\ Len(m_connected) = Cardinality(UrlsUsed)
        /\ \A i \in DOMAIN m_used :
            /\ HasClient(m_clients, m_used[i].url)
            /\ m_used[i].client = ClientOf(m_clients, m_used[i].url)
            /\ m_used[i].client.url = m_used[i].url

\* Three sends to two URLs were made since the last close, one of them
\* reusing a cached connection.
C20_Witness ==
    /\ SequentialBetweenCloses
    /\ Len(m_used) = 3
    /\ Cardinality(UrlsUsed) = 2
    /\ Len(m_connected) = 2

\* ============================================================ claims C21-C30
\* The messenger is called by one task only.
OneCaller == m_tasks = { 1 }

\* The last call the task finished was a close() that returned.
CloseReturned == m_result[1].op = "close" /\ m_result[1].kind = "return"

\* The clients the last close() called close() on: the last entries of the
\* log of client.close() calls.
ClosedByLastClose ==
    { m_closed[i] : i \in { j \in DOMAIN m_closed :
                              j > Len(m_closed) - m_result[1].closed } }

\* C21: close() releases all cached connections, each closed exactly once,
\* and leaves the cache empty; called again, or with no connection ever
\* opened, it closes nothing and raises nothing; a send_message after
\* close() opens a new connection.
C21_CloseReleasesAllAndIsIdempotent ==
    OneCaller =>
        /\ ( CloseReturned /\ m_call[1].op = "idle" ) =>
              /\ m_clients = << >>
              /\ m_open = { }
        /\ CloseReturned =>
              /\ m_result[1].closed = m_result[1].size
              /\ Cardinality(ClosedByLastClose) = m_result[1].size
        /\ ( m_result[1].op = "close" /\ m_result[1].size = 0 ) =>
              /\ m_result[1].kind = "return"
              /\ m_result[1].closed = 0
        /\ ( CloseReturned /\ m_call[1].op = "send" ) =>
              /\ m_call[1].client[1].id = m_call[1].n
              /\ m_call[1].client[1] \in m_open

\* Two cached connections were closed by a close() that returned, and a
\* send made after it is using a connection of its own.
C21_Witness ==
    /\ OneCaller
    /\ CloseReturned
    /\ m_result[1].size = 2
    /\ m_call[1].op = "send"
    /\ m_sends = 3

\* C30: the messenger holds at most one open connection per URL, also when
\* several send_message calls to a URL that is not connected yet are in
\* flight at once: every connection that is open is the one the cache holds
\* for its URL, so that the next close() closes it.
C30_EveryOpenConnectionIsCached ==
    \A c \in m_open :
        /\ HasClient(m_clients, c.url)
        /\ ClientOf(m_clients, c.url) = c

\* Position of an evaluator in the order evaluate_all is to follow.
TierRank(name) ==
    CASE name = "graph_evaluator" -> 1
      [] name = "llm_judge" -> 2
      [] name = "latency_evaluator" -> 3

\* C22: evaluate_all invokes the Tier 1 evaluator first, the judge only
\* after Tier 1 has finished and with Tier 1's result converted to a plain
\* key/value structure as graph_results, the latency evaluator after the
\* judge and on the step list only, and every evaluator at most once.
C22_TiersInvokedInOrder ==
    /\ \A i, j \in DOMAIN ev_calls :
          i < j => TierRank(ev_calls[i].evaluator) < TierRank(ev_calls[j].evaluator)
    /\ \A i \in DOMAIN ev_calls :
          /\ ev_calls[i].evaluator = "llm_judge" =>
                /\ ev_pc \notin { "idle", "graph_await" }
                /\ ev_calls[i].graph_results.passed
                /\ ev_calls[i].graph_results.value # tier1_graph_result
                      => tier1_graph_result.type = "model"
                /\ ev_calls[i].graph_results.value.type # "model"
                /\ ev_calls[i].graph_results.value.fields = tier1_graph_result.fields
                /\ ev_calls[i].graph_results.value.error = tier1_graph_result.error
          /\ ev_calls[i].evaluator # "llm_judge" =>
                ~ev_calls[i].graph_results.passed
          /\ ev_calls[i].evaluator = "latency_evaluator" =>
                ev_pc \in { "latency_await", "done" }
    /\ ~evaluators.graph.absent =>
          ( Len(ev_calls) > 0 => ev_calls[1].evaluator = "graph_evaluator" )

\* All three evaluators were invoked, Tier 1 having returned a model.
C22_Witness ==
    /\ Len(ev_calls) = 3
    /\ tier1_graph_result.type = "model"
    /\ report.kind = "return"

\* The judge's evaluate() calls made so far.
JudgeCalls == { i \in DOMAIN ev_calls : ev_calls[i].evaluator = "llm_judge" }

\* C28: when the Tier 1 evaluator raises, the judge is still invoked and
\* is given the error marker {"error": message} as graph_results, a
\* structure and not an absent context, and the report carries the same
\* marker in tier1_graph.
C28_JudgeReceivesTier1ErrorMarker ==
    ( ~evaluators.graph.absent /\ evaluators.graph.raises ) =>
        LET marker == ErrorMarker(evaluators.graph.message)
        IN  /\ ( ~evaluators.llm.absent
                 /\ ev_pc \in { "llm_await", "llm_done", "latency_await", "done" } ) =>
                  /\ JudgeCalls # { }
                  /\ \A i \in JudgeCalls :
                        /\ ev_calls[i].graph_results.passed
                        /\ ev_calls[i].graph_results.value = marker
                        /\ ev_calls[i].graph_results.value # PyNone
            /\ ev_pc = "done" =>
                  /\ report.kind = "return"
                  /\ report.tier1_graph = marker

\* Tier 1 raised, the judge was invoked and the report was returned.
C28_Witness ==
    /\ ~evaluators.graph.absent
    /\ evaluators.graph.raises
    /\ JudgeCalls # { }
    /\ report.kind = "return"

\* llm_evaluate returned the fallback judgment of a non-empty step list.
FallbackJudged == j_pc = "done" /\ JudgeFailed /\ j_steps # << >>

\* The penalties and the bonus behind the fallback score, from the step list.
ErrorPenaltyApplied == \E i \in DOMAIN j_steps : j_steps[i].error # None
LatencyPenaltyApplied == SumLatency(j_steps) > 1000 * Len(j_steps)
LargeLatencyPenaltyApplied == SumLatency(j_steps) > 2000 * Len(j_steps)
BonusApplied == Len(j_steps) > 1

Listed(list, entry) == \E i \in DOMAIN list : list[i] = entry

\* C24: in the fallback judgment there is an errors weakness iff the error
\* penalty was applied, otherwise a no-errors strength; a high-latency
\* weakness iff a latency penalty was applied, otherwise a low-latency
\* strength; a multiple-steps strength iff the bonus was applied.
C24_ListsFollowScoreConditions ==
    FallbackJudged =>
        LET s == j_outcome.value.strengths
            w == j_outcome.value.weaknesses
        IN  /\ Listed(w, "Errors detected in coordination") <=> ErrorPenaltyApplied
            /\ Listed(s, "No errors in coordination") <=> ~ErrorPenaltyApplied
            /\ Listed(w, "High latency") <=> LatencyPenaltyApplied
            /\ Listed(s, "Low latency") <=> ~LatencyPenaltyApplied
            /\ Listed(s, "Multiple interaction steps") <=> BonusApplied

\* C24 as the code has it: the high-latency weakness goes with the 0.2
\* penalty (average above 2000 ms) only, the low-latency strength with an
\* average below 1000 ms, where no latency penalty applies; in between
\* neither is listed.
C24_ListsFollowOwnLatencyBands ==
    FallbackJudged =>
        LET s == j_outcome.value.strengths
            w == j_outcome.value.weaknesses
        IN  /\ Listed(w, "Errors detected in coordination") <=> ErrorPenaltyApplied
            /\ Listed(s, "No errors in coordination") <=> ~ErrorPenaltyApplied
            /\ Listed(w, "High latency") <=> LargeLatencyPenaltyApplied
            /\ Listed(s, "Low latency")
                  <=> SumLatency(j_steps) < 1000 * Len(j_steps)
            /\ Listed(s, "Low latency") => ~LatencyPenaltyApplied
            /\ Listed(s, "Multiple interaction steps") <=> BonusApplied

\* The 0.1 latency penalty was applied and the judgment lists neither a
\* latency weakness nor a latency strength.
C24_Witness ==
    /\ FallbackJudged
    /\ LatencyPenaltyApplied /\ ~LargeLatencyPenaltyApplied
    /\ ~Listed(j_outcome.value.weaknesses, "High latency")
    /\ ~Listed(j_outcome.value.strengths, "Low latency")

\* C26: for every non-empty step list the fallback score is one of 0.3,
\* 0.4, ..., 0.9, so the clamp never changes it and the quality is never
\* low; low, with score 0.0, is returned for the empty step list only.
C26_FallbackScoreRange ==
    ( j_pc = "done" /\ JudgeFailed ) =>
        /\ j_steps # << >> =>
              /\ j_outcome.value.overall_score \in 3 .. 9
              /\ j_outcome.value.overall_score
                    = 8 - ( IF ErrorPenaltyApplied THEN 3 ELSE 0 )
                        - ( IF LargeLatencyPenaltyApplied THEN 2
                            ELSE IF LatencyPenaltyApplied THEN 1 ELSE 0 )
                        + ( IF BonusApplied THEN 1 ELSE 0 )
              /\ j_outcome.value.coordination_quality \in { "high", "medium" }
        /\ j_outcome.value.coordination_quality = "low" =>
              /\ j_steps = << >>
              /\ j_outcome.value.overall_score = 0

\* The lowest score of a non-empty list: one step with an error and a
\* latency above 2000 ms scores 0.8 - 0.3 - 0.2 = 0.3, still medium.
C26_Witness ==
    /\ FallbackJudged
    /\ Len(j_steps) = 1
    /\ ErrorPenaltyApplied
    /\ LargeLatencyPenaltyApplied
    /\ j_outcome.value.overall_score = 3
    /\ j_outcome.value.coordination_quality = "medium"

\* Some step names its own step_id as its parent_step_id.
SomeStepIsOwnParent ==
    \E i \in DOMAIN g_traces : g_traces[i].parent_step_id = g_traces[i].step_id

\* C25: for every step list in which no step names itself as its parent,
\* over_centralized is False: a node's in-degree plus out-degree is then at
\* most the number of edges, half of twice that number, which is below the
\* 70% threshold; the flag becomes True through self-loop edges only.
C25_OverCentralizedNeedsSelfLoop ==
    ( g_pc = "done" /\ g_outcome.kind = "return" ) =>
        /\ ~SomeStepIsOwnParent => ~g_outcome.metrics.over_centralized
        /\ g_outcome.metrics.over_centralized =>
              \E n \in Range(g_graph.nodes) : << n, n >> \in g_graph.edges
        /\ ~SomeStepIsOwnParent =>
              \A n \in Range(g_graph.nodes) :
                  Degree(g_graph, n) <= Cardinality(g_graph.edges)

\* A reported graph without self-loop in which one node takes part in every
\* edge, two of them: the largest share a node can have, 50%.
C25_Witness ==
    /\ GraphReported
    /\ ~SomeStepIsOwnParent
    /\ Cardinality(g_graph.edges) = 2
    /\ \E n \in Range(g_graph.nodes) : Degree(g_graph, n) = 2
    /\ ~g_outcome.metrics.over_centralized

\* C27: adaptive collection always terminates.  With a clock that advances
\* in every round and a finite max_timeout_seconds, execute_task returns or
\* raises whatever the peer does: the loop head finds the remaining time
\* used up before the bound on recorded steps is reached, and a collection
\* that entered the loop is eventually handed back to the caller.
C27_AdaptiveCollectionTerminates ==
    /\ []( ( pc = "adaptive_loop" /\ Len(traces) >= MaxSteps )
              => HardTimeoutExceeded(Remaining(deadline, now)) )
    /\ ( pc = "adaptive_loop" ) ~> ( pc = "done" )

\* A collection that the deadline ended: the peer answered every round
\* without ever signalling completion.
C27_Witness ==
    /\ pc = "done"
    /\ cfg.trace_collection # << >>
    /\ stop_reason = "hard_timeout"
    /\ Len(traces) >= 2
    /\ outcome.kind = "return"

\* ------------------------------------------------------------------ C23
\* The last get_peers call was made with a registry URL configured.
RegistryConfigured == d_green_url \notin { None, "" }

\* C23: get_peers queries the registry at most once per cache lifetime.  A
\* call made while the cache is younger than cache_ttl returns the cached
\* list and sends no registry request; a call made after cache_ttl has
\* elapsed, or after invalidate_cache(), sends exactly one registry request
\* and replaces the cache and its timestamp.
C23_RegistryQueriedOncePerCacheLifetime ==
    ( d_result.kind # "none" /\ RegistryConfigured ) =>
        /\ d_result.valid =>
             /\ d_result.requests = 0
             /\ d_result.kind = "return"
             /\ d_result.value = d_result.before[1]
             /\ d_result.cached = d_result.before
        /\ ~d_result.valid =>
             /\ d_result.requests = 1
             /\ d_result.kind = "return"
             /\ d_result.cached = << d_result.value >>
             /\ d_result.stamp = << d_result.time >>

\* ------------------------------------------------------------------ C29
\* The registry request of the last get_peers call failed: it raised, or
\* its body was not {"peers": [peer URLs]}.
RegistryFailed ==
    /\ d_result.requests = 1
    /\ \/ d_result.response \in FailureKinds
       \/ FromKeysRaises(d_result.peers)

\* C29: when the registry request fails, get_peers raises nothing, returns
\* the deduplicated static peers only and caches that result; while that
\* cache is valid a further call sends no registry request and returns the
\* same static peers, whatever the registry would answer.
C29_FailedRequestDegradesQuietly ==
    /\ RegistryFailed =>
         /\ d_result.kind = "return"
         /\ d_result.value = UniquePeers(d_static)
         /\ d_result.cached = << d_result.value >>
         /\ d_result.stamp = << d_result.time >>
    /\ ( d_result.kind # "none" /\ d_result.valid /\ d_result.degraded ) =>
         /\ d_result.requests = 0
         /\ d_result.kind = "return"
         /\ d_result.value = UniquePeers(d_static)

====
